---- MODULE Spec2Model ----
(***************************************************************************)
(* Idra agent fleet supervisor: Runner lifecycle (internal/agent/runner.go),*)
(* Manager (manager code in internal/agent/pb/types.go lines 31-140) and   *)
(* the health loop (internal/agent/healthcheck.go); the callers of         *)
(* RouteTask, Execute and Health with the event stream                     *)
(* (internal/agent/pb/client.go); the Registry scan and NewManager         *)
(* (internal/agent/registry.go, manifest.go); the wire codec                *)
(* (internal/agent/pb/codec.go); the frontend's mux and authMiddleware     *)
(* (internal/server/server.go); the daemon's top level with the health     *)
(* loop goroutine (runForeground, internal/service/service.go); the stdout *)
(* pipe of a child and the scanner goroutine of Start; the config store    *)
(* (internal/config/config.go).                                            *)
(*                                                                         *)
(* Every critical section taken under Runner.mu is one atomic action.      *)
(* Code that runs between two critical sections and touches only locals    *)
(* is folded into the critical section that follows it.                    *)
(***************************************************************************)
EXTENDS Integers, Sequences, FiniteSets, TLC

----------------------------------------------------------------------------
(* Bounds *)

\* number of Runner.Start calls issued in one behaviour (all runners)
MaxCalls == 2

\* number of Runner.Stop calls issued in one behaviour (all runners)
MaxStops == 1

\* number of events an agent streams in answer to one Execute
MaxEvents == 2

\* number of entries of the agents directory
MaxEntries == 2

\* length of the arbitrary byte sequences handed to the decoders
MaxBytes == 4

\* lines the stdout pipe of a child holds before a write blocks
PipeCap == 2

----------------------------------------------------------------------------
(* Values *)

Runners == {"s1", "s2"}

StateStopped == "stopped"

StateStarting == "starting"

StateRunning == "running"

StateFailed == "failed"

States == {StateStopped, StateStarting, StateRunning, StateFailed}

Calls == 1..MaxCalls

Stops == 1..MaxStops

\* nil for client, cancel and done (which otherwise hold the id of the
\* Start call that created them)
Nil == 0

\* the nil error
NoErr == "nil"

ErrStdoutPipe == "stdout pipe"

ErrStartCommand == "start command"

ErrPrematureExit == "agent exited without printing AGENT_PORT"

ErrTimeout == "timeout waiting for AGENT_PORT"

ErrDial == "grpc connect"

ErrExited == "process exited unexpectedly"

ErrNotRunning == "agent is not running"

ErrRPC == "rpc error"

\* A stdout line: whether it starts with "AGENT_PORT=" and the characters
\* that follow the prefix.
Lines ==
  { [pfx |-> FALSE, rest |-> <<"o", "k">>],
    [pfx |-> TRUE,  rest |-> <<"x">>],
    [pfx |-> TRUE,  rest |-> <<>>],
    [pfx |-> TRUE,  rest |-> <<"0">>],
    [pfx |-> TRUE,  rest |-> <<"4", "5">>],
    [pfx |-> TRUE,  rest |-> <<"4", "x">>] }

HasPrefix(line) == line.pfx

\* the scanner holds no line
NoLine == [pfx |-> FALSE, rest |-> <<"none">>]

DigitChars == <<"0", "1", "2", "3", "4", "5", "6", "7", "8", "9">>

IsDigit(ch) == \E i \in 1..10 : DigitChars[i] = ch

DigitVal(ch) == (CHOOSE i \in 1..10 : DigitChars[i] = ch) - 1

RECURSIVE LeadingDigits(_)
LeadingDigits(s) ==
  IF s = <<>> THEN <<>>
  ELSE IF ~IsDigit(Head(s)) THEN <<>>
  ELSE <<Head(s)>> \o LeadingDigits(Tail(s))

RECURSIVE DecimalValue(_, _)
DecimalValue(ds, acc) ==
  IF ds = <<>> THEN acc
  ELSE DecimalValue(Tail(ds), 10 * acc + DigitVal(Head(ds)))

\* fmt.Sscanf(line, "AGENT_PORT=%d", &port): the verb reads the leading
\* decimal digits; no digit is an error, input after the number is left over.
Sscanf(line) ==
  LET ds == LeadingDigits(line.rest)
  IN  IF ds = <<>> THEN [ok |-> FALSE, val |-> 0]
      ELSE [ok |-> TRUE, val |-> DecimalValue(ds, 0)]

----------------------------------------------------------------------------
(* Values of the request path *)

\* agent names a caller may pass to RouteTask: the keys of Manager.runners
\* and one name that is no key
AgentNames == Runners \cup {"ghost"}

\* skill labels (Manifest.Skills, TaskRequest.Skill)
Skills == {"echo", "sum"}

\* a TaskRequest, as far as routing could look at it
Requests == [skill : Skills]

\* TaskEvent.Type of a streamed event
Events == {"progress", "result"}

\* io.EOF
EOF == "EOF"

ErrStream == "stream error"

ErrUnknownAgent == "unknown agent"

ErrExecute == "execute on"

\* what an agent streams in answer to one Execute: the events before the
\* end of the stream, and how the stream ends
Streams ==
  [frames : UNION {[1..n -> Events] : n \in 0..MaxEvents},
   end    : {EOF, ErrStream}]

NoStream == [frames |-> <<>>, end |-> "none"]

\* (nil, nil)
NoResult == [events |-> <<>>, err |-> NoErr]

\* the error result (nil, e)
ErrResult(e) == [events |-> <<>>, err |-> e]

\* client.go 64-70: the i-th Recv on the stream
Recv(stream, i) ==
  IF i <= Len(stream.frames)
  THEN [ev |-> stream.frames[i], err |-> NoErr]
  ELSE [ev |-> "", err |-> stream.end]

\* events gathered in front of the ones already held
AccumulateNewestFirst(events, ev) == <<ev>> \o events

\* client.go 83: events = append(events, ev)
Accumulate(events, ev) == Append(events, ev)

\* client.go 75-84: the loop of RecvAll
RECURSIVE RecvLoop(_, _, _)
RecvLoop(stream, i, events) ==
  LET rv == Recv(stream, i)
  IN  IF rv.err = EOF THEN [events |-> events, err |-> NoErr]
      ELSE IF rv.err # NoErr THEN [events |-> events, err |-> rv.err]
      ELSE RecvLoop(stream, i + 1, Accumulate(events, rv.ev))

\* client.go 73-85
RecvAll(stream) == RecvLoop(stream, 1, <<>>)

----------------------------------------------------------------------------
(* Values of the registry scan *)

\* Manifest.Name values: empty, or an agent name
ManifestNames == {""} \cup Runners

\* Manifest.Skills values
SkillLists == {<<>>, <<"echo">>, <<"sum">>, <<"echo", "sum">>}

\* Manifest.Command values
Commands == {"", "run"}

\* An entry of the agents directory: a plain file, a directory without
\* manifest.json, a directory whose manifest.json cannot be read or is not
\* JSON, or a directory whose manifest.json decodes to the given fields.
Entries ==
  [kind : {"file", "nomanifest", "unreadable", "badjson"},
   name : {""}, skills : {<<>>}, command : {""}]
  \cup
  [kind : {"manifest"},
   name : ManifestNames, skills : SkillLists, command : Commands]

DirListings == UNION {[1..n -> Entries] : n \in 0..MaxEntries}

\* the empty map
EmptyMap == [k \in {} |-> ""]

\* m[k] = v
MapPut(m, k, v) ==
  [x \in DOMAIN m \cup {k} |-> IF x = k THEN v ELSE m[x]]

\* a manifest is valid with a name alone
ValidateNameOnly(m) == m.name # ""

\* manifest.go 40-51: Manifest.Validate
Validate(m) == m.name # "" /\ Len(m.skills) # 0 /\ m.command # ""

\* manifest.go 21-37: LoadManifest succeeds
LoadManifestOk(e) == e.kind = "manifest" /\ Validate(e)

\* registry.go 36: entry.IsDir()
IsDir(e) == e.kind # "file"

\* registry.go 39-42: the directory has a manifest.json
HasManifest(e) == e.kind # "nomanifest"

\* no skill is ever kept for its first declarant
KeepsExistingNever(m, skill) == FALSE

\* registry.go 52: the skill already has an agent
KeepsExisting(m, skill) == skill \in DOMAIN m

\* registry.go 51-58: register the skills of a manifest, first come first
\* served
RECURSIVE RegisterSkills(_, _, _)
RegisterSkills(m, name, skills) ==
  IF skills = <<>> THEN m
  ELSE IF KeepsExisting(m, Head(skills))
       THEN RegisterSkills(m, name, Tail(skills))
       ELSE RegisterSkills(MapPut(m, Head(skills), name), name, Tail(skills))

\* types.go 51-54: runners[m.Name] = NewRunner(m, ...) for the manifests
\* from index i on
RECURSIVE BuildRunners(_, _, _)
BuildRunners(ms, i, m) ==
  IF i > Len(ms) THEN m
  ELSE BuildRunners(ms, i + 1, MapPut(m, ms[i].name, i))

\* the agents directory the fleet {s1, s2} is built from
FleetEntries ==
  << [kind |-> "manifest", name |-> "s1", skills |-> <<"echo">>,
      command |-> "run"],
     [kind |-> "manifest", name |-> "s2", skills |-> <<"sum">>,
      command |-> "run"] >>

----------------------------------------------------------------------------
(* Values of the HTTP frontend *)

\* config.Get().BearerToken: generated when the configuration is loaded,
\* never empty
BearerToken == "tok"

\* a header value is the sequence of the pieces of text the middleware can
\* tell apart; the absent header is the empty string
AuthHeaders ==
  { <<>>,
    <<"Bearer ", BearerToken>>,
    <<"Bearer ", "bad">>,
    <<BearerToken>>,
    <<"bad">>,
    <<"Basic ", BearerToken>> }

Referers ==
  { <<>>,
    <<"http://127.0.0.1:", "7600/">>,
    <<"http://localhost:", "7600/">>,
    <<"https://", "localhost:", "7600/">>,
    <<"http://evil.example/">> }

\* a URL path is the sequence of its segments
Paths ==
  { <<>>,
    <<"static", "app.js">>,
    <<"api", "v1", "health">>,
    <<"api", "v1", "config">>,
    <<"api", "v1", "status">>,
    <<"api", "v1", "agents">>,
    <<"api", "v1", "agents", "s1">>,
    <<"api", "v1", "agents", "s1", "tasks">>,
    <<"api", "v1", "other">> }

HTTPRequests == [path : Paths, auth : AuthHeaders, referer : Referers]

NoRequest == [path |-> <<"none">>, auth |-> <<>>, referer |-> <<>>]

NoResponse == [handler |-> "none", status |-> "none"]

\* strings.HasPrefix(s, prefix), for a prefix that is one piece
StartsWith(s, prefix) == s # <<>> /\ Head(s) = prefix

\* strings.TrimPrefix(s, prefix)
TrimPrefix(s, prefix) == IF StartsWith(s, prefix) THEN Tail(s) ELSE s

\* strings.HasSuffix(r.URL.Path, "/tasks")
HasSuffix(path, seg) == path # <<>> /\ path[Len(path)] = seg

\* path is below the subtree pattern
Below(path, pattern) ==
  /\ Len(path) > Len(pattern)
  /\ SubSeq(path, 1, Len(pattern)) = pattern

\* server.go 37-71: the handler the mux chooses for a path (the longest
\* matching pattern), and whether it was registered behind authMiddleware
Route(path, mgr) ==
  IF path = <<"api", "v1", "health">>
  THEN [handler |-> "handleHealth", protected |-> FALSE]
  ELSE IF path = <<"api", "v1", "config">>
  THEN [handler |-> "handleConfig", protected |-> TRUE]
  ELSE IF path = <<"api", "v1", "status">>
  THEN [handler |-> "handleStatus", protected |-> TRUE]
  ELSE IF mgr /\ path = <<"api", "v1", "agents">>
  THEN [handler |-> "handleAgents", protected |-> TRUE]
  ELSE IF mgr /\ Below(path, <<"api", "v1", "agents">>)
  THEN [handler |-> IF HasSuffix(path, "tasks") THEN "handleAgentTasks"
                    ELSE "handleAgent",
        protected |-> TRUE]
  ELSE IF Below(path, <<"static">>)
  THEN [handler |-> "static", protected |-> FALSE]
  ELSE [handler |-> "root", protected |-> FALSE]

\* server.go 128-142: the condition under which authMiddleware calls next
Allows(req) ==
  LET token == TrimPrefix(req.auth, "Bearer ")
      isSameOrigin == \/ StartsWith(req.referer, "http://127.0.0.1:")
                      \/ StartsWith(req.referer, "http://localhost:")
  IN  ~(token # <<BearerToken>> /\ ~isSameOrigin)

----------------------------------------------------------------------------
(* Values of the wire codec (internal/agent/pb/codec.go) *)

\* A string and a byte slice are sequences of bytes, a byte is 0..255.
\* "" is <<>>, "a" is <<97>>; <<10, 0>> is a two-byte string that looks
\* like an encoded field.
StrVals == {<<>>, <<97>>, <<10, 0>>}

MetaKeys == {<<>>, <<97>>, <<18>>}

MetaVals == {<<>>, <<98>>}

\* map[string]string: nil, or a (possibly empty) table of key/value pairs
NilMap == [isnil |-> TRUE, kv |-> EmptyMap]

MetaMaps ==
  {NilMap} \cup
  { [isnil |-> FALSE, kv |-> f] :
      f \in UNION { [ks -> MetaVals] : ks \in SUBSET MetaKeys } }

\* types.go 8-13
TaskRequests ==
  [TaskId : StrVals, Skill : StrVals, Input : StrVals, Metadata : MetaMaps]

\* types.go 16-20
TaskEvents == [TaskId : StrVals, Type : StrVals, Payload : StrVals]

\* types.go 23-26
HealthResponses == [Status : StrVals, AgentName : StrVals]

Kinds == {"TaskRequest", "TaskEvent", "HealthResponse"}

MessagesOf(kind) ==
  IF kind = "TaskRequest" THEN TaskRequests
  ELSE IF kind = "TaskEvent" THEN TaskEvents
  ELSE HealthResponses

\* new(T): the zero value of the message type
Fresh(kind) ==
  IF kind = "TaskRequest"
  THEN [TaskId |-> <<>>, Skill |-> <<>>, Input |-> <<>>, Metadata |-> NilMap]
  ELSE IF kind = "TaskEvent"
  THEN [TaskId |-> <<>>, Type |-> <<>>, Payload |-> <<>>]
  ELSE [Status |-> <<>>, AgentName |-> <<>>]

NoMsg == [none |-> TRUE]

NoOut == [status |-> "none", msg |-> NoMsg]

\* the orders in which "for k, v := range m" can visit the keys of a map
RangeOrders(kv) ==
  LET ks == DOMAIN kv
      n == Cardinality(ks)
  IN  {o \in [1..n -> ks] : \A i, j \in 1..n : o[i] = o[j] => i = j}

\* protowire wire types
VarintType == 0

Fixed64Type == 1

BytesType == 2

StartGroupType == 3

EndGroupType == 4

Fixed32Type == 5

\* b[n:]
Drop(b, n) == SubSeq(b, n + 1, Len(b))

\* protowire.AppendVarint: seven bits per byte, low group first, the high
\* bit set on every byte but the last
RECURSIVE AppendVarint(_, _)
AppendVarint(b, v) ==
  IF v < 128 THEN Append(b, v)
  ELSE AppendVarint(Append(b, 128 + (v % 128)), v \div 128)

\* protowire.AppendTag(b, num, typ)
AppendTag(b, num, typ) == AppendVarint(b, num * 8 + typ)

\* protowire.AppendBytes(b, v): the length, then the bytes
AppendBytes(b, v) == AppendVarint(b, Len(v)) \o v

Pow128(k) == IF k = 0 THEN 1 ELSE IF k = 1 THEN 128
             ELSE IF k = 2 THEN 16384 ELSE 2097152

\* protowire.ConsumeVarint from byte i on, k bytes read so far.  The 64-bit
\* value is kept as lo (bits 0..27) and hi (the bits above); n is the number
\* of bytes consumed, or -1: the input ended inside the varint, or the tenth
\* byte overflows 64 bits.
RECURSIVE VarintFrom(_, _, _, _)
VarintFrom(b, k, hi, lo) ==
  IF k + 1 > Len(b) THEN [n |-> -1, hi |-> 0, lo |-> 0]
  ELSE LET y == b[k + 1]
           g == y % 128
           hi2 == IF k >= 4 /\ g # 0 THEN hi + g * Pow128(k - 4) ELSE hi
           lo2 == IF k < 4 THEN lo + g * Pow128(k) ELSE lo
       IN  IF y < 128
           THEN IF k = 9 /\ y > 1 THEN [n |-> -1, hi |-> 0, lo |-> 0]
                ELSE [n |-> k + 1, hi |-> hi2, lo |-> lo2]
           ELSE IF k = 9 THEN [n |-> -1, hi |-> 0, lo |-> 0]
                ELSE VarintFrom(b, k + 1, hi2, lo2)

ConsumeVarint(b) == VarintFrom(b, 0, 0, 0)

\* protowire.ConsumeTag: a varint; the field number is the value without its
\* low three bits and must be in 1..2^31-1, the wire type is the low three
\* bits.  n is -1 on error.
ConsumeTag(b) ==
  LET v == ConsumeVarint(b)
      bad == [n |-> -1, num |-> 0, typ |-> 0]
  IN  IF v.n < 0 THEN bad
      ELSE IF v.hi >= 64 THEN bad
      ELSE IF v.hi = 0 /\ v.lo \div 8 = 0 THEN bad
      ELSE [n |-> v.n, num |-> v.hi * 33554432 + v.lo \div 8,
            typ |-> v.lo % 8]

\* a ConsumeBytes that trusts the length prefix
ConsumeBytesUnchecked(b) ==
  LET v == ConsumeVarint(b)
  IN  IF v.n < 0 THEN [n |-> -1, val |-> <<>>]
      ELSE [n |-> v.n + v.lo,
            val |-> SubSeq(b, v.n + 1,
                           IF v.n + v.lo > Len(b) THEN Len(b)
                           ELSE v.n + v.lo)]

\* protowire.ConsumeBytes: a varint length m, then m bytes; -1 if the length
\* is malformed or more than what is left
ConsumeBytes(b) ==
  LET v == ConsumeVarint(b)
  IN  IF v.n < 0 THEN [n |-> -1, val |-> <<>>]
      ELSE IF v.hi > 0 \/ v.lo > Len(b) - v.n THEN [n |-> -1, val |-> <<>>]
      ELSE [n |-> v.n + v.lo, val |-> SubSeq(b, v.n + 1, v.n + v.lo)]

\* protowire.ConsumeFieldValue: the length of the value of a field of wire
\* type typ at the head of b, or -1.  A group runs to the end-group tag of
\* its own field number; wire types 6 and 7 do not exist.
RECURSIVE ConsumeFieldValueD(_, _, _, _)
RECURSIVE ConsumeGroup(_, _, _, _)
ConsumeFieldValueD(num, typ, b, depth) ==
  IF typ = VarintType THEN ConsumeVarint(b).n
  ELSE IF typ = Fixed32Type THEN (IF Len(b) < 4 THEN -1 ELSE 4)
  ELSE IF typ = Fixed64Type THEN (IF Len(b) < 8 THEN -1 ELSE 8)
  ELSE IF typ = BytesType THEN ConsumeBytes(b).n
  ELSE IF typ = StartGroupType
  THEN (IF depth < 0 THEN -1 ELSE ConsumeGroup(num, b, 0, depth))
  ELSE -1

ConsumeGroup(num, b, i, depth) ==
  LET tag == ConsumeTag(Drop(b, i))
  IN  IF tag.n < 0 THEN -1
      ELSE IF tag.typ = EndGroupType
      THEN (IF tag.num # num THEN -1 ELSE i + tag.n)
      ELSE LET n == ConsumeFieldValueD(tag.num, tag.typ,
                                       Drop(b, i + tag.n), depth - 1)
           IN  IF n < 0 THEN -1
               ELSE ConsumeGroup(num, b, i + tag.n + n, depth)

ConsumeFieldValue(num, typ, b) == ConsumeFieldValueD(num, typ, b, 10000)

\* an appendString that writes empty strings too
appendStringAlways(b, fieldNum, s) ==
  AppendBytes(AppendTag(b, fieldNum, BytesType), s)

\* codec.go 188-195
appendString(b, fieldNum, s) ==
  IF s = <<>> THEN b
  ELSE AppendBytes(AppendTag(b, fieldNum, BytesType), s)

\* codec.go 197-201
appendBytes(b, fieldNum, data) ==
  AppendBytes(AppendTag(b, fieldNum, BytesType), data)

\* codec.go 52-56: the metadata entries, visited in the order "order"
RECURSIVE appendEntries(_, _, _, _)
appendEntries(b, kv, order, i) ==
  IF i > Len(order) THEN b
  ELSE LET k == order[i]
           entry == appendString(appendString(<<>>, 1, k), 2, kv[k])
       IN  appendEntries(appendBytes(b, 4, entry), kv, order, i + 1)

\* codec.go 48-58
marshalTaskRequest(m, order) ==
  appendEntries(
    appendString(appendString(appendString(<<>>, 1, m.TaskId), 2, m.Skill),
                 3, m.Input),
    m.Metadata.kv, order, 1)

\* codec.go 105-111
marshalTaskEvent(m) ==
  appendString(appendString(appendString(<<>>, 1, m.TaskId), 2, m.Type),
               3, m.Payload)

\* codec.go 148-153
marshalHealthResponse(m) ==
  appendString(appendString(<<>>, 1, m.Status), 2, m.AgentName)

\* codec.go 16-29: Codec.Marshal
Marshal(kind, m, order) ==
  IF kind = "TaskRequest" THEN marshalTaskRequest(m, order)
  ELSE IF kind = "TaskEvent" THEN marshalTaskEvent(m)
  ELSE marshalHealthResponse(m)

\* what a decoder returns: nil, or an error; a slice expression out of range
\* would panic
Ok(m) == [status |-> "ok", msg |-> m]

Fail(m) == [status |-> "error", msg |-> m]

Panic(m) == [status |-> "panic", msg |-> m]

\* codec.go 203-232
RECURSIVE unmarshalMapEntry(_, _, _)
unmarshalMapEntry(data, k, v) ==
  IF Len(data) = 0 THEN [status |-> "ok", k |-> k, v |-> v]
  ELSE
    LET tag == ConsumeTag(data)
        bad == [status |-> "error", k |-> <<>>, v |-> <<>>]
        oops == [status |-> "panic", k |-> <<>>, v |-> <<>>]
    IN  IF tag.n < 0 THEN bad
        ELSE
          LET d1 == Drop(data, tag.n) IN
          IF tag.typ # BytesType
          THEN LET n == ConsumeFieldValue(tag.num, tag.typ, d1)
               IN  IF n < 0 THEN bad
                   ELSE IF n > Len(d1) THEN oops
                   ELSE unmarshalMapEntry(Drop(d1, n), k, v)
          ELSE LET bv == ConsumeBytes(d1)
               IN  IF bv.n < 0 THEN bad
                   ELSE IF bv.n > Len(d1) THEN oops
                   ELSE unmarshalMapEntry(
                          Drop(d1, bv.n),
                          IF tag.num = 1 THEN bv.val ELSE k,
                          IF tag.num = 2 THEN bv.val ELSE v)

\* codec.go 76-84: case 4 of unmarshalTaskRequest
SetEntry(meta, k, v) == [isnil |-> FALSE, kv |-> MapPut(meta.kv, k, v)]

\* codec.go 61-101
RECURSIVE unmarshalTaskRequest(_, _)
unmarshalTaskRequest(data, m) ==
  IF Len(data) = 0 THEN Ok(m)
  ELSE
    LET tag == ConsumeTag(data) IN
    IF tag.n < 0 THEN Fail(m)
    ELSE
      LET d1 == Drop(data, tag.n) IN
      IF tag.typ = BytesType
      THEN LET bv == ConsumeBytes(d1) IN
           IF bv.n < 0 THEN Fail(m)
           ELSE IF bv.n > Len(d1) THEN Panic(m)
           ELSE
             LET d2 == Drop(d1, bv.n) IN
             IF tag.num = 1
             THEN unmarshalTaskRequest(d2, [m EXCEPT !.TaskId = bv.val])
             ELSE IF tag.num = 2
             THEN unmarshalTaskRequest(d2, [m EXCEPT !.Skill = bv.val])
             ELSE IF tag.num = 3
             THEN unmarshalTaskRequest(d2, [m EXCEPT !.Input = bv.val])
             ELSE IF tag.num = 4
             THEN LET m4 == [m EXCEPT !.Metadata =
                               [isnil |-> FALSE, kv |-> @.kv]]
                      e == unmarshalMapEntry(bv.val, <<>>, <<>>)
                  IN  IF e.status = "error" THEN Fail(m4)
                      ELSE IF e.status = "panic" THEN Panic(m4)
                      ELSE unmarshalTaskRequest(
                             d2,
                             [m EXCEPT !.Metadata = SetEntry(@, e.k, e.v)])
             ELSE unmarshalTaskRequest(d2, m)
      ELSE LET n == ConsumeFieldValue(tag.num, tag.typ, d1) IN
           IF n < 0 THEN Fail(m)
           ELSE IF n > Len(d1) THEN Panic(m)
           ELSE unmarshalTaskRequest(Drop(d1, n), m)

\* codec.go 113-144
RECURSIVE unmarshalTaskEvent(_, _)
unmarshalTaskEvent(data, m) ==
  IF Len(data) = 0 THEN Ok(m)
  ELSE
    LET tag == ConsumeTag(data) IN
    IF tag.n < 0 THEN Fail(m)
    ELSE
      LET d1 == Drop(data, tag.n) IN
      IF tag.typ = BytesType
      THEN LET bv == ConsumeBytes(d1) IN
           IF bv.n < 0 THEN Fail(m)
           ELSE IF bv.n > Len(d1) THEN Panic(m)
           ELSE
             LET d2 == Drop(d1, bv.n) IN
             IF tag.num = 1
             THEN unmarshalTaskEvent(d2, [m EXCEPT !.TaskId = bv.val])
             ELSE IF tag.num = 2
             THEN unmarshalTaskEvent(d2, [m EXCEPT !.Type = bv.val])
             ELSE IF tag.num = 3
             THEN unmarshalTaskEvent(d2, [m EXCEPT !.Payload = bv.val])
             ELSE unmarshalTaskEvent(d2, m)
      ELSE LET n == ConsumeFieldValue(tag.num, tag.typ, d1) IN
           IF n < 0 THEN Fail(m)
           ELSE IF n > Len(d1) THEN Panic(m)
           ELSE unmarshalTaskEvent(Drop(d1, n), m)

\* codec.go 155-184
RECURSIVE unmarshalHealthResponse(_, _)
unmarshalHealthResponse(data, m) ==
  IF Len(data) = 0 THEN Ok(m)
  ELSE
    LET tag == ConsumeTag(data) IN
    IF tag.n < 0 THEN Fail(m)
    ELSE
      LET d1 == Drop(data, tag.n) IN
      IF tag.typ = BytesType
      THEN LET bv == ConsumeBytes(d1) IN
           IF bv.n < 0 THEN Fail(m)
           ELSE IF bv.n > Len(d1) THEN Panic(m)
           ELSE
             LET d2 == Drop(d1, bv.n) IN
             IF tag.num = 1
             THEN unmarshalHealthResponse(d2, [m EXCEPT !.Status = bv.val])
             ELSE IF tag.num = 2
             THEN unmarshalHealthResponse(d2,
                                          [m EXCEPT !.AgentName = bv.val])
             ELSE unmarshalHealthResponse(d2, m)
      ELSE LET n == ConsumeFieldValue(tag.num, tag.typ, d1) IN
           IF n < 0 THEN Fail(m)
           ELSE IF n > Len(d1) THEN Panic(m)
           ELSE unmarshalHealthResponse(Drop(d1, n), m)

\* codec.go 31-44: Codec.Unmarshal
Unmarshal(kind, data, m) ==
  IF kind = "TaskRequest" THEN unmarshalTaskRequest(data, m)
  ELSE IF kind = "TaskEvent" THEN unmarshalTaskEvent(data, m)
  ELSE unmarshalHealthResponse(data, m)

\* the bytes received input is made of: tags of fields 1, 2 and 4 with wire
\* type bytes, of field 1 with the other wire types (8 varint, 11 start
\* group, 12 end group, 13 fixed32, 14 reserved), small lengths, a character
\* and a byte with the continuation bit
WireBytes == {0, 1, 2, 8, 10, 11, 12, 13, 14, 18, 34, 97, 128}

\* every byte sequence of at most MaxBytes bytes over WireBytes
ByteSeqs == UNION { [1..n -> WireBytes] : n \in 0..MaxBytes }

\* well-formed fields the decoders know
KnownFields ==
  { <<10, 1, 97>>,            \* field 1 = "a"
    <<18, 2, 97, 97>>,        \* field 2 = "aa"
    <<10, 0>>,                \* field 1 = ""
    <<34, 5, 10, 1, 97, 18, 0>>,   \* field 4 = {"a": ""}
    <<34, 0>> }               \* field 4 = {"": ""}

\* well-formed fields with an unknown number or another wire type
UnknownFields ==
  { <<42, 1, 97>>,            \* field 5, bytes
    <<8, 128, 1>>,            \* field 1, varint 128
    <<13, 1, 2, 3, 4>>,       \* field 1, fixed32
    <<9, 1, 2, 3, 4, 5, 6, 7, 8>>,   \* field 1, fixed64
    <<11, 8, 1, 12>>,         \* field 1, group holding a varint
    <<250, 1, 0>> }           \* field 31 (two-byte tag), bytes, empty

\* what no decoder can decode at the end of the input: a tag cut short, a
\* length-delimited value cut short
Truncated ==
  { <<128>>,                  \* tag: continuation bit, then nothing
    <<10>>,                   \* field 1: no length
    <<10, 3, 97>>,            \* field 1: 3 bytes announced, 1 present
    <<18, 128>>,              \* field 2: length cut short
    <<34, 4, 10, 0>> }        \* field 4: 4 bytes announced, 2 present

\* a field 4 of the right length whose inside is not a map entry
BadEntries ==
  { <<34, 1, 10>>,            \* entry key without length
    <<34, 2, 18, 5>>,         \* entry value longer than the entry
    <<34, 1, 128>>,           \* entry tag cut short
    <<34, 2, 14, 0>> }        \* entry field of wire type 6

\* zero, one or two known fields
KnownSeqs ==
  {<<>>} \cup KnownFields \cup {x \o y : x \in KnownFields, y \in KnownFields}

\* a received message as its sender composed it: known fields, then one
\* unknown or cut field (or nothing), then at most one more known field
Frames ==
  [a : KnownSeqs,
   u : UnknownFields \cup Truncated \cup BadEntries \cup {<<>>},
   b : KnownFields \cup {<<>>}]

NoFrame == [a |-> <<>>, u |-> <<0>>, b |-> <<>>]

----------------------------------------------------------------------------
(* Values of the config store (internal/config/config.go) *)

\* ports on both sides of the limits of validate, the default and a fallback
\* port of resolveAddr
Ports == {0, 1, 7601, 8080, 65535, 65536}

Tokens == {BearerToken, "other"}

\* config.go 21-26: Config (the agent overrides play no part)
Configs == [Port : Ports, BearerToken : Tokens, AutoOpen : BOOLEAN]

\* config.go 28-34 and 57: Default() with the token Load generated
Default == [Port |-> 8080, BearerToken |-> BearerToken, AutoOpen |-> TRUE]

\* config.go 129-134: validate returns no error
validate(c) == ~(c.Port < 1 \/ c.Port > 65535)

\* the body of a PATCH request: which of the keys "port" and
\* "auto_open_browser" it has, and their values
Patches ==
  [hasPort : BOOLEAN, port : Ports, hasAuto : BOOLEAN, auto : BOOLEAN]

\* server.go 178-185: the function handleConfig gives to Update
ApplyPatch(c, p) ==
  [c EXCEPT !.Port = IF p.hasPort THEN p.port ELSE @,
            !.AutoOpen = IF p.hasAuto THEN p.auto ELSE @]

\* no call of the config store has returned yet
NoCall == [op |-> "none", err |-> "nil", ret |-> Default]

----------------------------------------------------------------------------
(* State *)

VARIABLES
  state,     \* Runner.state
  port,      \* Runner.port
  client,    \* Runner.client: Nil or the Start call whose connection it is
  cancel,    \* Runner.cancel: Nil or the Start call whose context it cancels
  done,      \* Runner.done: Nil or the Start call that allocated the channel
  err,       \* Runner.err
  ncalls,    \* Start calls issued so far
  crun,      \* Start call -> its runner
  spc,       \* Start call -> position in Runner.Start
  scause,    \* Start call -> the error it passed to setFailed (a local)
  child,     \* Start call -> its child process
  mon,       \* Start call -> its monitor goroutine
  ctxDone,   \* Start call -> its context is cancelled
  closed,    \* Start call -> the done channel it allocated is closed
  scan,      \* Start call -> its stdout scanner goroutine
  nstops,    \* Stop calls issued so far
  kpc,       \* Stop call -> position in Runner.Stop
  krun,      \* Stop call -> its runner
  kstate,    \* Stop call -> local "state"
  kdone,     \* Stop call -> local "done"
  sapc,      \* position of Manager.StartAll
  sacalls,   \* the Start calls StartAll's WaitGroup waits for
  hlpc,      \* position of the health loop
  hlr,       \* runner the health loop is probing
  hlstate,   \* checkAll's local "state" for that runner
  panicked,  \* a goroutine panicked: the process is gone
  xpc,       \* position of the caller of RouteTask / Execute / Health
  xop,       \* which of the three it called
  xr,        \* the runner the call was delegated to
  xstream,   \* what the agent streamed in answer to Execute
  xres,      \* what the call returns: events and error
  dirStatus, \* outcome of os.ReadDir(agentsDir)
  entries,   \* the directory entries in enumeration order
  regpc,     \* position of NewRegistry / NewManager
  rpos,      \* index of the next entry of the scan
  agents,    \* Registry.agents
  skillMap,  \* Registry.skillMap
  runners,   \* Manager.runners: agent name -> index in agents of the
             \* manifest its Runner was built from
  hmgr,      \* server.New was given a Manager (mgr != nil)
  hreq,      \* the HTTP request being served
  hres,      \* how it was answered: the handler the mux chose, and whether
             \* the middleware let the request through to it
  cpc,       \* position of the user of the codec
  ckind,     \* the message type it marshals or unmarshals
  cmsg,      \* the message that was marshalled
  cwire,     \* the bytes on the wire
  cframe,    \* for received bytes composed of fields: the fields
  cout,      \* what Unmarshal returned: status and the message filled in
  dmode,     \* how the daemon runs: in the foreground or as a service
  dpc,       \* position of the daemon's top level
  dwhy,      \* why it is going down
  qstopped,  \* the runners StopAll has called Stop on
  hctx,      \* the context given to StartAll and the health loop is cancelled
  tick,      \* ticker.C holds a tick
  lpc,       \* position of the health loop goroutine
  pipe,      \* Start call -> the lines in the stdout pipe of its child
  sline,     \* Start call -> the line its scanner has read (scanner.Text())
  current,   \* config.current
  saved,     \* the configuration in the config file
  gcall      \* the last call of Update or Replace: what it returned

runnerVars == <<state, port, client, cancel, done, err>>

callVars == <<ncalls, crun, spc, scause>>

procVars == <<child, mon, ctxDone, closed, scan>>

stopVars == <<nstops, kpc, krun, kstate, kdone>>

mgrVars == <<sapc, sacalls>>

hlVars == <<hlpc, hlr, hlstate>>

\* everything of the runner lifecycle
lifeVars == <<runnerVars, callVars, procVars, stopVars, mgrVars, hlVars,
              panicked>>

execVars == <<xpc, xop, xr, xstream, xres>>

regVars == <<dirStatus, entries, regpc, rpos, agents, skillMap, runners>>

authVars == <<hmgr, hreq, hres>>

\* the parts of the service that are modelled on their own
codecVars == <<cpc, ckind, cmsg, cwire, cframe, cout>>

daemonVars == <<dmode, dpc, dwhy, qstopped>>

loopVars == <<hctx, tick, lpc>>

pipeVars == <<pipe, sline>>

configVars == <<current, saved, gcall>>

auxVars == <<authVars, codecVars, daemonVars, loopVars, pipeVars,
             configVars>>

\* what no step of the runner lifecycle touches
extVars == <<execVars, regVars, auxVars>>

vars == <<runnerVars, callVars, procVars, stopVars, mgrVars, hlVars,
          panicked, execVars, regVars, auxVars>>

\* NewRunner for every manifest (NewManager), no call issued yet
LifeInit ==
  /\ state = [r \in Runners |-> StateStopped]
  /\ port = [r \in Runners |-> 0]
  /\ client = [r \in Runners |-> Nil]
  /\ cancel = [r \in Runners |-> Nil]
  /\ done = [r \in Runners |-> Nil]
  /\ err = [r \in Runners |-> NoErr]
  /\ ncalls = 0
  /\ crun = [c \in Calls |-> "none"]
  /\ spc = [c \in Calls |-> "none"]
  /\ scause = [c \in Calls |-> NoErr]
  /\ child = [c \in Calls |-> "none"]
  /\ mon = [c \in Calls |-> "none"]
  /\ ctxDone = [c \in Calls |-> FALSE]
  /\ closed = [c \in Calls |-> FALSE]
  /\ scan = [c \in Calls |-> "none"]
  /\ nstops = 0
  /\ kpc = [s \in Stops |-> "none"]
  /\ krun = [s \in Stops |-> "none"]
  /\ kstate = [s \in Stops |-> StateStopped]
  /\ kdone = [s \in Stops |-> Nil]
  /\ sapc = "idle"
  /\ sacalls = {}
  /\ hlpc = "loop"
  /\ hlr = "none"
  /\ hlstate = "none"
  /\ panicked = FALSE

\* no request in flight
CallerInit ==
  /\ xpc = "idle"
  /\ xop = "none"
  /\ xr = "none"
  /\ xstream = NoStream
  /\ xres = NoResult

\* the registry and the manager of the fleet {s1, s2}, constructed
FleetBuilt ==
  /\ dirStatus = "ok"
  /\ entries = FleetEntries
  /\ regpc = "managed"
  /\ rpos = Len(FleetEntries) + 1
  /\ agents = FleetEntries
  /\ skillMap = RegisterSkills(RegisterSkills(EmptyMap, "s1", <<"echo">>),
                               "s2", <<"sum">>)
  /\ runners = BuildRunners(FleetEntries, 1, EmptyMap)

\* the frontend built with the manager, no request being served
AuthIdle ==
  /\ hmgr = TRUE
  /\ hreq = NoRequest
  /\ hres = NoResponse

\* the codec is not in use
CodecIdle ==
  /\ cpc = "idle"
  /\ ckind = "none"
  /\ cmsg = NoMsg
  /\ cwire = <<>>
  /\ cframe = NoFrame
  /\ cout = NoOut

\* the daemon's top level has built the manager and not called StartAll
\* yet; the health loop goroutine does not exist
DaemonIdle ==
  /\ dmode = "foreground"
  /\ dpc = "init"
  /\ dwhy = "none"
  /\ qstopped = {}
  /\ hctx = FALSE
  /\ tick = FALSE
  /\ lpc = "none"

\* no child has written anything
PipeIdle ==
  /\ pipe = [c \in Calls |-> <<>>]
  /\ sline = [c \in Calls |-> NoLine]

\* the configuration as Load leaves it without a config file, saved
ConfigIdle ==
  /\ current = Default
  /\ saved = Default
  /\ gcall = NoCall

AuxIdle == AuthIdle /\ CodecIdle /\ DaemonIdle /\ PipeIdle /\ ConfigIdle

\* the service after construction: registry and manager built, every runner
\* Stopped, nothing called yet
Init == LifeInit /\ CallerInit /\ FleetBuilt /\ AuxIdle

----------------------------------------------------------------------------
(* Runner.Start *)

\* setFailed with the wrong state constant
setFailedWritesStopped(r, e) ==
  /\ state' = [state EXCEPT ![r] = StateStopped]
  /\ err' = [err EXCEPT ![r] = e]

\* Runner.setFailed: under the lock, state = Failed and err = e
setFailed(r, e) ==
  /\ state' = [state EXCEPT ![r] = StateFailed]
  /\ err' = [err EXCEPT ![r] = e]

\* the guard of Start without its Starting half
StartIsNoopRunningOnly(r) == state[r] = StateRunning

\* runner.go 55: a runner that is Running or Starting is left alone
StartIsNoop(r) == state[r] = StateRunning \/ state[r] = StateStarting

\* runner.go 54-62: the first critical section of call c on runner r.
\* Final positions of a call: "noop" (line 57), "ok" (line 142), "failed"
\* and "failednil" (a "return r.err" that returned an error, or nil).
StartEnter(c, r) ==
  IF StartIsNoop(r)
  THEN /\ spc' = [spc EXCEPT ![c] = "noop"]
       /\ UNCHANGED runnerVars
  ELSE /\ state' = [state EXCEPT ![r] = StateStarting]
       /\ err' = [err EXCEPT ![r] = NoErr]
       /\ done' = [done EXCEPT ![r] = c]
       /\ spc' = [spc EXCEPT ![c] = "spawn"]
       /\ UNCHANGED <<port, client, cancel>>

\* a caller invokes r.Start(ctx)
Start(r) ==
  /\ ~panicked
  /\ ncalls < MaxCalls
  /\ LET c == ncalls + 1 IN
       /\ ncalls' = c
       /\ crun' = [crun EXCEPT ![c] = r]
       /\ StartEnter(c, r)
  /\ UNCHANGED extVars
  /\ UNCHANGED <<scause, procVars, stopVars, mgrVars, hlVars, panicked>>

\* a goroutine of StartAll reaches r.Start(ctx)
StartAllEnter(c) ==
  /\ ~panicked
  /\ spc[c] = "begin"
  /\ StartEnter(c, crun[c])
  /\ UNCHANGED extVars
  /\ UNCHANGED <<ncalls, crun, scause, procVars, stopVars, mgrVars, hlVars,
                 panicked>>

\* runner.go 64-82: context, StdoutPipe and cmd.Start; on failure cancel()
\* and setFailed
Spawn(c) ==
  /\ ~panicked
  /\ spc[c] = "spawn"
  /\ \/ /\ child' = [child EXCEPT ![c] = "alive"]
        /\ spc' = [spc EXCEPT ![c] = "store"]
        /\ UNCHANGED <<ctxDone, state, err, scause>>
     \/ \E e \in {ErrStdoutPipe, ErrStartCommand} :
          /\ ctxDone' = [ctxDone EXCEPT ![c] = TRUE]
          /\ setFailed(crun[c], e)
          /\ scause' = [scause EXCEPT ![c] = e]
          /\ spc' = [spc EXCEPT ![c] = "reterr"]
          /\ UNCHANGED child
  /\ UNCHANGED extVars
  /\ UNCHANGED <<port, client, cancel, done, ncalls, crun, mon, closed, scan,
                 stopVars, mgrVars, hlVars, panicked>>

\* the cancel handle is stored and the scanner launched, but no monitor
StoreCancelNoMonitor(c) ==
  /\ ~panicked
  /\ spc[c] = "store"
  /\ cancel' = [cancel EXCEPT ![crun[c]] = c]
  /\ scan' = [scan EXCEPT ![c] = "scanning"]
  /\ spc' = [spc EXCEPT ![c] = "select"]
  /\ UNCHANGED extVars
  /\ UNCHANGED <<state, port, client, done, err, ncalls, crun, scause, child,
                 mon, ctxDone, closed, stopVars, mgrVars, hlVars, panicked>>

\* runner.go 84-110: r.cancel = cancel under the lock, then the monitor and
\* the scanner goroutines are launched
StoreCancel(c) ==
  /\ ~panicked
  /\ spc[c] = "store"
  /\ cancel' = [cancel EXCEPT ![crun[c]] = c]
  /\ mon' = [mon EXCEPT ![c] = "waiting"]
  /\ scan' = [scan EXCEPT ![c] = "scanning"]
  /\ spc' = [spc EXCEPT ![c] = "select"]
  /\ UNCHANGED extVars
  /\ UNCHANGED <<state, port, client, done, err, ncalls, crun, scause, child,
                 ctxDone, closed, stopVars, mgrVars, hlVars, panicked>>

\* runner.go 98-106 and 113-117: the child has printed "line", the scanner
\* parses a port out of it and sends it; the select receives it and stores
\* r.port under the lock.  (The child may be gone by the time the line is
\* read; a line that is no port line is logged and changes nothing.)
SelectPort(c, line) ==
  /\ ~panicked
  /\ spc[c] = "select"
  /\ scan[c] = "scanning"
  /\ HasPrefix(line)
  /\ Sscanf(line).ok
  /\ port' = [port EXCEPT ![crun[c]] = Sscanf(line).val]
  /\ scan' = [scan EXCEPT ![c] = "done"]
  /\ spc' = [spc EXCEPT ![c] = "dial"]
  /\ UNCHANGED extVars
  /\ UNCHANGED <<state, client, cancel, done, err, ncalls, crun, scause,
                 child, mon, ctxDone, closed, stopVars, mgrVars, hlVars,
                 panicked>>

\* runner.go 109 and 118-120: the child is gone, the scanner hits end of
\* file and sends its error; the select receives it
SelectErr(c) ==
  /\ ~panicked
  /\ spc[c] = "select"
  /\ scan[c] = "scanning"
  /\ child[c] \in {"exited", "reaped"}
  /\ scan' = [scan EXCEPT ![c] = "done"]
  /\ setFailed(crun[c], ErrPrematureExit)
  /\ scause' = [scause EXCEPT ![c] = ErrPrematureExit]
  /\ spc' = [spc EXCEPT ![c] = "reterr"]
  /\ UNCHANGED extVars
  /\ UNCHANGED <<port, client, cancel, done, ncalls, crun, child, mon,
                 ctxDone, closed, stopVars, mgrVars, hlVars, panicked>>

\* a select without its timer case
SelectWithoutTimeout(c) ==
  /\ FALSE
  /\ spc[c] = "select"
  /\ UNCHANGED vars

\* runner.go 121-123: the 15 s timer fires first; the scanner keeps reading
SelectTimeout(c) ==
  /\ ~panicked
  /\ spc[c] = "select"
  /\ setFailed(crun[c], ErrTimeout)
  /\ scause' = [scause EXCEPT ![c] = ErrTimeout]
  /\ spc' = [spc EXCEPT ![c] = "reterr"]
  /\ UNCHANGED extVars
  /\ UNCHANGED <<port, client, cancel, done, ncalls, crun, procVars,
                 stopVars, mgrVars, hlVars, panicked>>

\* runner.go 98-110 after a timeout: the scanner finds a port line or the end
\* of file, sends on its buffered channel (which nobody reads) and returns
ScanOrphan(c) ==
  /\ ~panicked
  /\ scan[c] = "scanning"
  /\ spc[c] \notin {"store", "select"}
  /\ scan' = [scan EXCEPT ![c] = "done"]
  /\ UNCHANGED extVars
  /\ UNCHANGED <<runnerVars, callVars, child, mon, ctxDone, closed,
                 stopVars, mgrVars, hlVars, panicked>>

\* runner.go 127-142: grpc.Dial, then client and state = Running under the
\* lock and return nil; on a dial error setFailed
Connect(c) ==
  /\ ~panicked
  /\ spc[c] = "dial"
  /\ \/ /\ client' = [client EXCEPT ![crun[c]] = c]
        /\ state' = [state EXCEPT ![crun[c]] = StateRunning]
        /\ spc' = [spc EXCEPT ![c] = "ok"]
        /\ UNCHANGED <<err, scause>>
     \/ /\ setFailed(crun[c], ErrDial)
        /\ scause' = [scause EXCEPT ![c] = ErrDial]
        /\ spc' = [spc EXCEPT ![c] = "reterr"]
        /\ UNCHANGED client
  /\ UNCHANGED extVars
  /\ UNCHANGED <<port, cancel, done, ncalls, crun, procVars, stopVars,
                 mgrVars, hlVars, panicked>>

\* "return r.err" after setFailed (lines 74, 81, 120, 123, 133): r.err is
\* read again, without the lock; the call's locals are gone afterwards
ReturnErr(c) ==
  /\ ~panicked
  /\ spc[c] = "reterr"
  /\ spc' = [spc EXCEPT ![c] =
               IF err[crun[c]] = NoErr THEN "failednil" ELSE "failed"]
  /\ scause' = [scause EXCEPT ![c] = NoErr]
  /\ UNCHANGED extVars
  /\ UNCHANGED <<runnerVars, ncalls, crun, procVars, stopVars, mgrVars,
                 hlVars, panicked>>

\* the call has returned to its caller
StartReturned(c) == spc[c] \in {"noop", "ok", "failed", "failednil"}

----------------------------------------------------------------------------
(* The child process *)

\* the child terminates by itself
ChildExit(c) ==
  /\ ~panicked
  /\ child[c] = "alive"
  /\ child' = [child EXCEPT ![c] = "exited"]
  /\ UNCHANGED extVars
  /\ UNCHANGED <<runnerVars, callVars, mon, ctxDone, closed, scan,
                 stopVars, mgrVars, hlVars, panicked>>

\* exec.CommandContext kills the child once its context is cancelled
ChildKill(c) ==
  /\ ~panicked
  /\ child[c] = "alive"
  /\ ctxDone[c]
  /\ child' = [child EXCEPT ![c] = "exited"]
  /\ UNCHANGED extVars
  /\ UNCHANGED <<runnerVars, callVars, mon, ctxDone, closed, scan,
                 stopVars, mgrVars, hlVars, panicked>>

----------------------------------------------------------------------------
(* Runner.monitor *)

\* runner.go 261: the monitor marks the runner Failed only from Running
MonitorMarksFailed(r) == state[r] = StateRunning

\* runner.go 249-270: cmd.Wait returned for the child of call c.  close() of
\* a channel that is already closed panics.
Monitor(c) ==
  /\ ~panicked
  /\ mon[c] = "waiting"
  /\ child[c] = "exited"
  /\ child' = [child EXCEPT ![c] = "reaped"]
  /\ LET r == crun[c] IN
       IF done[r] # Nil /\ closed[done[r]]
       THEN /\ panicked' = TRUE
            /\ mon' = [mon EXCEPT ![c] = "panicked"]
            /\ UNCHANGED <<state, err, closed>>
       ELSE /\ panicked' = FALSE
            /\ mon' = [mon EXCEPT ![c] = "done"]
            /\ closed' = IF done[r] # Nil
                         THEN [closed EXCEPT ![done[r]] = TRUE]
                         ELSE closed
            /\ IF MonitorMarksFailed(r)
               THEN setFailed(r, ErrExited)
               ELSE UNCHANGED <<state, err>>
  /\ UNCHANGED extVars
  /\ UNCHANGED <<port, client, cancel, done, callVars, ctxDone, scan,
                 stopVars, mgrVars, hlVars>>

----------------------------------------------------------------------------
(* Runner.Stop *)

\* runner.go 165: Stop waits for done only from Running or Starting
StopWaits(s) ==
  kdone[s] # Nil /\ (kstate[s] = StateRunning \/ kstate[s] = StateStarting)

\* runner.go 147-162: the critical section of Stop, then client.Close() and
\* cancel() of the handle it found
StopEnter(s, r) ==
  /\ krun' = [krun EXCEPT ![s] = r]
  /\ kstate' = [kstate EXCEPT ![s] = state[r]]
  /\ kdone' = [kdone EXCEPT ![s] = done[r]]
  /\ kpc' = [kpc EXCEPT ![s] = "wait"]
  /\ state' = [state EXCEPT ![r] = StateStopped]
  /\ client' = [client EXCEPT ![r] = Nil]
  /\ cancel' = [cancel EXCEPT ![r] = Nil]
  /\ ctxDone' = IF cancel[r] # Nil
                THEN [ctxDone EXCEPT ![cancel[r]] = TRUE]
                ELSE ctxDone
  /\ UNCHANGED <<port, done, err, callVars, child, mon, closed, scan,
                 mgrVars, hlVars, panicked>>

\* a caller invokes r.Stop()
Stop(r) ==
  /\ ~panicked
  /\ nstops < MaxStops
  /\ nstops' = nstops + 1
  /\ StopEnter(nstops + 1, r)
  /\ UNCHANGED extVars

\* a caller invokes r.Stop() after every earlier Stop call has returned (the
\* record of a returned call is used again)
StopAgain(r) ==
  /\ ~panicked
  /\ nstops = MaxStops
  /\ \A s \in Stops : kpc[s] = "returned"
  /\ nstops' = nstops
  /\ StopEnter(1, r)
  /\ UNCHANGED extVars

\* runner.go 165: nothing to wait for
StopNoWait(s) ==
  /\ ~panicked
  /\ kpc[s] = "wait"
  /\ ~StopWaits(s)
  /\ kpc' = [kpc EXCEPT ![s] = "returned"]
  /\ kstate' = [kstate EXCEPT ![s] = StateStopped]
  /\ kdone' = [kdone EXCEPT ![s] = Nil]
  /\ UNCHANGED extVars
  /\ UNCHANGED <<runnerVars, callVars, procVars, nstops, krun, mgrVars,
                 hlVars, panicked>>

\* runner.go 167: done is closed
StopDone(s) ==
  /\ ~panicked
  /\ kpc[s] = "wait"
  /\ StopWaits(s)
  /\ closed[kdone[s]]
  /\ kpc' = [kpc EXCEPT ![s] = "returned"]
  /\ kstate' = [kstate EXCEPT ![s] = StateStopped]
  /\ kdone' = [kdone EXCEPT ![s] = Nil]
  /\ UNCHANGED extVars
  /\ UNCHANGED <<runnerVars, callVars, procVars, nstops, krun, mgrVars,
                 hlVars, panicked>>

\* runner.go 168-169: the 5 s grace period elapses first
StopTimeout(s) ==
  /\ ~panicked
  /\ kpc[s] = "wait"
  /\ StopWaits(s)
  /\ kpc' = [kpc EXCEPT ![s] = "returned"]
  /\ kstate' = [kstate EXCEPT ![s] = StateStopped]
  /\ kdone' = [kdone EXCEPT ![s] = Nil]
  /\ UNCHANGED extVars
  /\ UNCHANGED <<runnerVars, callVars, procVars, nstops, krun, mgrVars,
                 hlVars, panicked>>

StopReturned(s) == kpc[s] = "returned"

----------------------------------------------------------------------------
(* Manager.StartAll *)

\* the runners of the manager in the order StartAll's range visits them
RunnerSeq == <<"s1", "s2">>

\* types.go 62-75: one goroutine per runner, each calling r.Start(ctx)
StartAll ==
  /\ ~panicked
  /\ sapc = "idle"
  /\ ncalls + Len(RunnerSeq) <= MaxCalls
  /\ LET new == (ncalls + 1)..(ncalls + Len(RunnerSeq)) IN
       /\ ncalls' = ncalls + Len(RunnerSeq)
       /\ crun' = [c \in Calls |->
                     IF c \in new THEN RunnerSeq[c - ncalls] ELSE crun[c]]
       /\ spc' = [c \in Calls |-> IF c \in new THEN "begin" ELSE spc[c]]
       /\ sacalls' = new
  /\ sapc' = "waiting"
  /\ UNCHANGED extVars
  /\ UNCHANGED <<runnerVars, scause, procVars, stopVars, hlVars, panicked>>

\* types.go 76-78: wg.Wait() returns once every goroutine's Start returned
StartAllReturn ==
  /\ ~panicked
  /\ sapc = "waiting"
  /\ \A c \in sacalls : StartReturned(c)
  /\ sapc' = "idle"
  /\ sacalls' = {}
  /\ UNCHANGED extVars
  /\ UNCHANGED <<runnerVars, callVars, procVars, stopVars, hlVars, panicked>>

----------------------------------------------------------------------------
(* The health loop *)

\* the skip test of checkAll with only the Stopped case
HLSkipsStoppedOnly(st) == st = StateStopped

\* healthcheck.go 41: a runner that was not read as Running is skipped
HLSkips(st) == st # StateRunning

\* healthcheck.go 36-43: checkAll reads the state of a runner of its
\* snapshot under the read lock; it goes on to the next runner ("continue",
\* the local is gone) if the runner is skipped, and on to r.Health otherwise
HLRead(r) ==
  /\ ~panicked
  /\ hlpc = "loop"
  /\ IF HLSkips(state[r])
     THEN /\ hlpc' = "loop"
          /\ hlr' = "none"
          /\ hlstate' = "none"
     ELSE /\ hlpc' = "health"
          /\ hlr' = r
          /\ hlstate' = state[r]
  /\ UNCHANGED extVars
  /\ UNCHANGED <<runnerVars, callVars, procVars, stopVars, mgrVars, panicked>>

\* runner.go 197-204: Health reads client and state again
HLHealth ==
  /\ ~panicked
  /\ hlpc = "health"
  /\ hlpc' = IF state[hlr] # StateRunning \/ client[hlr] = Nil
             THEN "notrunning" ELSE "rpc"
  /\ UNCHANGED extVars
  /\ UNCHANGED <<runnerVars, callVars, procVars, stopVars, mgrVars, hlr,
                 hlstate, panicked>>

\* healthcheck.go 49-52: Health returned the not-running error
HLNotRunning ==
  /\ ~panicked
  /\ hlpc = "notrunning"
  /\ setFailed(hlr, ErrNotRunning)
  /\ hlpc' = "loop"
  /\ hlr' = "none"
  /\ hlstate' = "none"
  /\ UNCHANGED extVars
  /\ UNCHANGED <<port, client, cancel, done, callVars, procVars, stopVars,
                 mgrVars, panicked>>

\* the probe RPC succeeded
HLProbeOk ==
  /\ ~panicked
  /\ hlpc = "rpc"
  /\ hlpc' = "loop"
  /\ hlr' = "none"
  /\ hlstate' = "none"
  /\ UNCHANGED extVars
  /\ UNCHANGED <<runnerVars, callVars, procVars, stopVars, mgrVars, panicked>>

\* a failed probe that is only logged
HLProbeFailLogsOnly ==
  /\ ~panicked
  /\ hlpc = "rpc"
  /\ hlpc' = "loop"
  /\ hlr' = "none"
  /\ hlstate' = "none"
  /\ UNCHANGED extVars
  /\ UNCHANGED <<runnerVars, callVars, procVars, stopVars, mgrVars, panicked>>

\* healthcheck.go 49-52: the probe RPC failed or hit its 5 s deadline
HLProbeFail ==
  /\ ~panicked
  /\ hlpc = "rpc"
  /\ setFailed(hlr, ErrRPC)
  /\ hlpc' = "loop"
  /\ hlr' = "none"
  /\ hlstate' = "none"
  /\ UNCHANGED extVars
  /\ UNCHANGED <<port, client, cancel, done, callVars, procVars, stopVars,
                 mgrVars, panicked>>

----------------------------------------------------------------------------
(* Manager.RouteTask, Runner.Execute, Runner.Health and their callers *)

\* runner.go 183 and 202: the call is rejected
NotRunning(r) == state[r] # StateRunning \/ client[r] = Nil

\* runner.go 178-185 and 197-204: client and state are read under the read
\* lock; the call returns the not-running error or goes on to the RPC
CallEnter(r, op) ==
  /\ xr' = r
  /\ xop' = op
  /\ xstream' = NoStream
  /\ IF NotRunning(r)
     THEN /\ xpc' = "returned"
          /\ xres' = ErrResult(ErrNotRunning)
     ELSE /\ xpc' = "rpc"
          /\ xres' = NoResult

\* a caller invokes r.Execute(ctx, req)
Execute(r) ==
  /\ ~panicked
  /\ xpc = "idle"
  /\ CallEnter(r, "execute")
  /\ UNCHANGED <<lifeVars, regVars, auxVars>>

\* a caller invokes r.Health(ctx)
Health(r) ==
  /\ ~panicked
  /\ xpc = "idle"
  /\ CallEnter(r, "health")
  /\ UNCHANGED <<lifeVars, regVars, auxVars>>

\* the runner is looked up by the owner of the request's skill
RouteLookupBySkill(name, req) == skillMap[req.skill]

\* types.go 94: runner, ok := m.runners[agentName]
RouteLookup(name, req) == name

\* types.go 92-102: RouteTask looks the runner up and delegates to Execute,
\* or returns the unknown-agent error
RouteTask(name, req) ==
  /\ ~panicked
  /\ xpc = "idle"
  /\ LET key == RouteLookup(name, req) IN
       IF key \in DOMAIN runners
       THEN CallEnter(key, "execute")
       ELSE /\ xpc' = "returned"
            /\ xop' = "route"
            /\ xr' = "none"
            /\ xstream' = NoStream
            /\ xres' = ErrResult(ErrUnknownAgent)
  /\ UNCHANGED <<lifeVars, regVars, auxVars>>

\* an Execute whose failed RPC marks the runner Failed
ExecuteRPCMarksFailed(out) ==
  /\ ~panicked
  /\ xpc = "rpc"
  /\ xop = "execute"
  /\ xpc' = "returned"
  /\ IF out = NoStream
     THEN /\ xstream' = NoStream
          /\ xres' = ErrResult(ErrExecute)
          /\ setFailed(xr, ErrExecute)
     ELSE /\ xstream' = out
          /\ xres' = RecvAll(out)
          /\ UNCHANGED <<state, err>>
  /\ UNCHANGED <<port, client, cancel, done, callVars, procVars, stopVars,
                 mgrVars, hlVars, panicked, xop, xr, regVars, auxVars>>

\* runner.go 187-192: client.Execute opens the stream and sends the request;
\* if that fails (out = NoStream) the wrapped error is returned, otherwise
\* the agent streams "out" and Execute returns stream.RecvAll()
ExecuteRPC(out) ==
  /\ ~panicked
  /\ xpc = "rpc"
  /\ xop = "execute"
  /\ xpc' = "returned"
  /\ IF out = NoStream
     THEN /\ xstream' = NoStream
          /\ xres' = ErrResult(ErrExecute)
     ELSE /\ xstream' = out
          /\ xres' = RecvAll(out)
  /\ UNCHANGED <<lifeVars, xop, xr, regVars, auxVars>>

\* runner.go 206, client.go 42-50: client.Health returns the response or
\* the error of the RPC
HealthRPC(ok) ==
  /\ ~panicked
  /\ xpc = "rpc"
  /\ xop = "health"
  /\ xpc' = "returned"
  /\ xres' = IF ok THEN NoResult ELSE ErrResult(ErrRPC)
  /\ UNCHANGED <<lifeVars, xop, xr, xstream, regVars, auxVars>>

\* the caller has its answer; its locals are gone
CallReturn ==
  /\ ~panicked
  /\ xpc = "returned"
  /\ xpc' = "idle"
  /\ xop' = "none"
  /\ xr' = "none"
  /\ xstream' = NoStream
  /\ xres' = NoResult
  /\ UNCHANGED <<lifeVars, regVars, auxVars>>

----------------------------------------------------------------------------
(* NewRegistry and NewManager *)

\* registry.go 26-33: os.ReadDir; a missing directory gives the empty
\* registry, another error fails the construction
ReadDir ==
  /\ regpc = "new"
  /\ regpc' = IF dirStatus = "ok" THEN "scan"
              ELSE IF dirStatus = "missing" THEN "ok"
              ELSE "error"
  /\ rpos' = 1
  /\ UNCHANGED <<lifeVars, execVars, auxVars, dirStatus,
                 entries, agents, skillMap,
                 runners>>

\* registry.go 35-62: one iteration of the scan
ScanEntry ==
  /\ regpc = "scan"
  /\ rpos <= Len(entries)
  /\ LET e == entries[rpos] IN
       IF IsDir(e) /\ HasManifest(e) /\ LoadManifestOk(e)
       THEN /\ skillMap' = RegisterSkills(skillMap, e.name, e.skills)
            /\ agents' = Append(agents, e)
       ELSE UNCHANGED <<skillMap, agents>>
  /\ rpos' = rpos + 1
  /\ UNCHANGED <<lifeVars, execVars, auxVars, dirStatus,
                 entries, regpc, runners>>

\* registry.go 64: return r, nil
ScanDone ==
  /\ regpc = "scan"
  /\ rpos > Len(entries)
  /\ regpc' = "ok"
  /\ UNCHANGED <<lifeVars, execVars, auxVars, dirStatus,
                 entries, rpos, agents,
                 skillMap, runners>>

\* types.go 50-59: NewManager(reg)
NewManager ==
  /\ regpc = "ok"
  /\ runners' = BuildRunners(agents, 1, EmptyMap)
  /\ regpc' = "managed"
  /\ UNCHANGED <<lifeVars, execVars, auxVars, dirStatus,
                 entries, rpos, agents,
                 skillMap>>

----------------------------------------------------------------------------
(* The HTTP frontend: mux and authMiddleware *)

\* server.go 55-71 and 126-144: the mux picks the handler of the request;
\* a handler behind authMiddleware is reached only if the middleware allows
\* the request, otherwise the answer is 401
ServeHTTP(req) ==
  /\ hreq = NoRequest
  /\ hreq' = req
  /\ LET rt == Route(req.path, hmgr) IN
       hres' = [handler |-> rt.handler,
                status |-> IF rt.protected /\ ~Allows(req) THEN "401"
                           ELSE "next"]
  /\ UNCHANGED <<lifeVars, execVars, regVars, hmgr, codecVars, daemonVars,
                 loopVars, pipeVars, configVars>>

\* the response is written; the frontend waits for the next request
Respond ==
  /\ hreq # NoRequest
  /\ hreq' = NoRequest
  /\ hres' = NoResponse
  /\ UNCHANGED <<lifeVars, execVars, regVars, hmgr, codecVars, daemonVars,
                 loopVars, pipeVars, configVars>>

----------------------------------------------------------------------------
(* The wire codec *)

\* codec.go 16-29: Codec.Marshal(m) for a message of type kind; the range
\* over the metadata visits the keys in the order "order"
MarshalMsg(kind, m, order) ==
  /\ cpc = "idle"
  /\ cpc' = "wire"
  /\ ckind' = kind
  /\ cmsg' = m
  /\ cwire' = Marshal(kind, m, order)
  /\ UNCHANGED <<lifeVars, execVars, regVars, authVars, daemonVars,
                 loopVars, pipeVars, configVars,
                 cframe, cout>>

\* bytes arrive from the peer: any byte sequence
Receive(kind, bytes) ==
  /\ cpc = "idle"
  /\ cpc' = "wire"
  /\ ckind' = kind
  /\ cwire' = bytes
  /\ UNCHANGED <<lifeVars, execVars, regVars, authVars, daemonVars,
                 loopVars, pipeVars, configVars,
                 cmsg, cframe, cout>>

\* bytes arrive from the peer, composed of the fields of frame f
ReceiveFrame(kind, f) ==
  /\ cpc = "idle"
  /\ cpc' = "wire"
  /\ ckind' = kind
  /\ cwire' = f.a \o f.u \o f.b
  /\ cframe' = f
  /\ UNCHANGED <<lifeVars, execVars, regVars, authVars, daemonVars,
                 loopVars, pipeVars, configVars,
                 cmsg, cout>>

\* codec.go 31-44: Codec.Unmarshal(data, new(T))
UnmarshalWire ==
  /\ cpc = "wire"
  /\ cpc' = "decoded"
  /\ cout' = Unmarshal(ckind, cwire, Fresh(ckind))
  /\ UNCHANGED <<lifeVars, execVars, regVars, authVars, daemonVars,
                 loopVars, pipeVars, configVars,
                 ckind, cmsg, cwire, cframe>>

\* the caller has the message or the error
CodecReturn ==
  /\ cpc = "decoded"
  /\ cpc' = "idle"
  /\ ckind' = "none"
  /\ cmsg' = NoMsg
  /\ cwire' = <<>>
  /\ cframe' = NoFrame
  /\ cout' = NoOut
  /\ UNCHANGED <<lifeVars, execVars, regVars, authVars, daemonVars,
                 loopVars, pipeVars, configVars>>

----------------------------------------------------------------------------
(* The daemon's top level: runForeground and the service program *)

\* aux state the daemon and the health loop leave alone
otherVars == <<execVars, regVars, authVars, codecVars, pipeVars,
               configVars>>

\* part_005 89-90, service.go 41-42: StartAll has returned; the health loop
\* goroutine is launched with its ticker, the frontend starts to serve
StartHealthLoop ==
  /\ ~panicked
  /\ dpc = "init"
  /\ ncalls > 0
  /\ sapc = "idle"
  /\ dpc' = "serving"
  /\ lpc' = "select"
  /\ UNCHANGED <<lifeVars, otherVars, dmode, dwhy, qstopped, hctx, tick>>

\* cancellation of the context: every context derived from it in Start is
\* cancelled with it
CancelAll ==
  /\ hctx' = TRUE
  /\ ctxDone' = [c \in Calls |-> TRUE]

\* part_005 84: SIGINT or SIGTERM cancels the context of NotifyContext
Signal ==
  /\ ~panicked
  /\ dmode = "foreground"
  /\ dpc \in {"init", "serving"}
  /\ ~hctx
  /\ CancelAll
  /\ UNCHANGED <<runnerVars, callVars, child, mon, closed, scan, stopVars,
                 mgrVars, hlVars, panicked, otherVars, daemonVars, tick, lpc>>

\* the position the top level takes when it goes down with the frontend
\* torn down first
OnShutdownServerFirst == "shutdown"

\* part_005 114-120, service.go 72-75: going down begins with mgr.StopAll()
OnShutdown == "stopall"

\* part_005 113-114: the select of runForeground takes <-ctx.Done()
ForegroundDown ==
  /\ ~panicked
  /\ dmode = "foreground"
  /\ dpc = "serving"
  /\ hctx
  /\ dpc' = OnShutdown
  /\ dwhy' = "signal"
  /\ UNCHANGED <<lifeVars, otherVars, dmode, qstopped, loopVars>>

\* part_005 126-133: the select takes a non-nil error from errCh
ServeError ==
  /\ ~panicked
  /\ dmode = "foreground"
  /\ dpc = "serving"
  /\ dpc' = "stopall"
  /\ dwhy' = "srverr"
  /\ UNCHANGED <<lifeVars, otherVars, dmode, qstopped, loopVars>>

\* service.go 71-75: the service manager calls program.Stop
ServiceStop ==
  /\ ~panicked
  /\ dmode = "service"
  /\ dpc = "serving"
  /\ dpc' = OnShutdown
  /\ dwhy' = "stop"
  /\ UNCHANGED <<lifeVars, otherVars, dmode, qstopped, loopVars>>

\* types.go 85-87: StopAll calls runner.Stop() on the next runner of its
\* range, once the Stop before it has returned
StopAllStop(r) ==
  /\ ~panicked
  /\ dpc = "stopall"
  /\ r \notin qstopped
  /\ \A s \in Stops : kpc[s] \in {"none", "returned"}
  /\ nstops' = 1
  /\ StopEnter(1, r)
  /\ qstopped' = qstopped \cup {r}
  /\ UNCHANGED <<otherVars, dmode, dpc, dwhy, loopVars>>

\* where the top level goes on after StopAll: os.Exit(1) after a server
\* error (part_005 132), p.cancel() in the service (service.go 76-78),
\* srv.Shutdown in the foreground (part_005 122-123)
AfterStopAll ==
  IF dwhy = "srverr" THEN "exit"
  ELSE IF dmode = "service" THEN "cancel"
  ELSE "shutdown"

\* types.go 88: every runner's Stop has returned, StopAll returns
StopAllReturn ==
  /\ ~panicked
  /\ dpc = "stopall"
  /\ qstopped = Runners
  /\ \A s \in Stops : kpc[s] \in {"none", "returned"}
  /\ dpc' = AfterStopAll
  /\ UNCHANGED <<lifeVars, otherVars, dmode, dwhy, qstopped, loopVars>>

\* service.go 76-78: p.cancel()
ServiceCancel ==
  /\ ~panicked
  /\ dpc = "cancel"
  /\ CancelAll
  /\ dpc' = "shutdown"
  /\ UNCHANGED <<runnerVars, callVars, child, mon, closed, scan, stopVars,
                 mgrVars, hlVars, panicked, otherVars, dmode, dwhy, qstopped,
                 tick, lpc>>

\* part_005 122-125, service.go 79-83: srv.Shutdown returns
ShutdownDone ==
  /\ ~panicked
  /\ dpc = "shutdown"
  /\ dpc' = "down"
  /\ UNCHANGED <<lifeVars, otherVars, dmode, dwhy, qstopped, loopVars>>

----------------------------------------------------------------------------
(* StartHealthLoop: the goroutine of the health loop *)

\* healthcheck.go 14: the ticker puts a tick into its channel (capacity 1)
\* every interval, until ticker.Stop
Tick ==
  /\ ~panicked
  /\ lpc \in {"select", "checkall"}
  /\ ~tick
  /\ tick' = TRUE
  /\ UNCHANGED <<lifeVars, otherVars, daemonVars, hctx, lpc>>

\* healthcheck.go 19-20: the select takes <-ctx.Done(); the loop returns
LoopExit ==
  /\ ~panicked
  /\ lpc = "select"
  /\ hctx
  /\ lpc' = "exited"
  /\ UNCHANGED <<lifeVars, otherVars, daemonVars, hctx, tick>>

\* healthcheck.go 21-22: the select takes <-ticker.C and checkAll begins.
\* When both channels are ready the select takes either.
LoopTick ==
  /\ ~panicked
  /\ lpc = "select"
  /\ tick
  /\ tick' = FALSE
  /\ lpc' = "checkall"
  /\ UNCHANGED <<lifeVars, otherVars, daemonVars, hctx>>

\* healthcheck.go 36-53: checkAll is past its last runner and returns
CheckAllDone ==
  /\ ~panicked
  /\ lpc = "checkall"
  /\ hlpc = "loop"
  /\ lpc' = "select"
  /\ UNCHANGED <<lifeVars, otherVars, daemonVars, hctx, tick>>

----------------------------------------------------------------------------
(* The stdout pipe of a child and the scanner goroutine of Start *)

\* the parts of the service the pipe and the scanner leave alone
restVars == <<execVars, regVars, authVars, codecVars, daemonVars, loopVars,
              configVars>>

\* runner.go 101-103: the line makes the scanner send a port and return
IsPortLine(line) == HasPrefix(line) /\ Sscanf(line).ok

\* the child prints a line; the write blocks while the pipe is full
ChildWrite(c, line) ==
  /\ ~panicked
  /\ child[c] = "alive"
  /\ Len(pipe[c]) < PipeCap
  /\ pipe' = [pipe EXCEPT ![c] = Append(@, line)]
  /\ UNCHANGED <<lifeVars, restVars, sline>>

\* runner.go 98-99: scanner.Scan() takes the next line out of the pipe
ScanRead(c) ==
  /\ ~panicked
  /\ scan[c] = "scanning"
  /\ sline[c] = NoLine
  /\ pipe[c] # <<>>
  /\ sline' = [sline EXCEPT ![c] = Head(pipe[c])]
  /\ pipe' = [pipe EXCEPT ![c] = Tail(@)]
  /\ UNCHANGED <<lifeVars, restVars>>

\* runner.go 100-108: a line that is no port line is logged; the loop goes
\* on to the next Scan
ScanDrop(c) ==
  /\ ~panicked
  /\ scan[c] = "scanning"
  /\ sline[c] # NoLine
  /\ ~IsPortLine(sline[c])
  /\ sline' = [sline EXCEPT ![c] = NoLine]
  /\ UNCHANGED <<lifeVars, restVars, pipe>>

\* runner.go 98, 109: Scan returns false: the pipe is empty and its write
\* end is closed
ScanEOF(c) ==
  /\ sline[c] = NoLine
  /\ pipe[c] = <<>>
  /\ child[c] \in {"exited", "reaped"}

\* the child is alive, its next write cannot proceed
Blocked(c) == child[c] = "alive" /\ Len(pipe[c]) = PipeCap

----------------------------------------------------------------------------
(* The config store: Update and Replace *)

\* config.go 77-81: Get
Get == current

\* config.go 108-127: save() writes current to the config file, or fails
\* and leaves the file as it was
save(c, ok) == saved' = IF ok THEN c ELSE saved

\* config.go 83-92: Update(fn) for the fn of handleConfig's PATCH: fn runs on
\* &current itself, then validate, then save
Update(p, ok) ==
  LET c == ApplyPatch(current, p) IN
    /\ current' = c
    /\ IF ~validate(c)
       THEN /\ gcall' = [op |-> "update", err |-> "validate", ret |-> c]
            /\ UNCHANGED saved
       ELSE /\ save(c, ok)
            /\ gcall' = [op |-> "update",
                         err |-> IF ok THEN "nil" ELSE "save",
                         ret |-> c]
    /\ UNCHANGED <<lifeVars, execVars, regVars, authVars, codecVars,
                   daemonVars, loopVars, pipeVars>>

\* config.go 94-105: Replace(c) for the body of handleConfig's PUT: the
\* token of current is kept, validate runs on the copy, then current = c and
\* save
Replace(body, ok) ==
  LET c == [body EXCEPT !.BearerToken = current.BearerToken] IN
    /\ IF ~validate(c)
       THEN /\ gcall' = [op |-> "replace", err |-> "validate",
                         ret |-> current]
            /\ UNCHANGED <<current, saved>>
       ELSE /\ current' = c
            /\ save(c, ok)
            /\ gcall' = [op |-> "replace",
                         err |-> IF ok THEN "nil" ELSE "save",
                         ret |-> c]
    /\ UNCHANGED <<lifeVars, execVars, regVars, authVars, codecVars,
                   daemonVars, loopVars, pipeVars>>

----------------------------------------------------------------------------
(* Specification *)

Next ==
  \/ \E r \in Runners : Start(r)
  \/ \E c \in Calls : StartAllEnter(c)
  \/ \E c \in Calls : Spawn(c)
  \/ \E c \in Calls : StoreCancel(c)
  \/ \E c \in Calls : \E line \in Lines : SelectPort(c, line)
  \/ \E c \in Calls : SelectErr(c)
  \/ \E c \in Calls : SelectTimeout(c)
  \/ \E c \in Calls : Connect(c)
  \/ \E c \in Calls : ReturnErr(c)
  \/ \E c \in Calls : ChildExit(c)
  \/ \E c \in Calls : ChildKill(c)
  \/ \E c \in Calls : ScanOrphan(c)
  \/ \E c \in Calls : Monitor(c)
  \/ \E r \in Runners : Stop(r)
  \/ \E s \in Stops : StopNoWait(s)
  \/ \E s \in Stops : StopDone(s)
  \/ \E s \in Stops : StopTimeout(s)
  \/ StartAll
  \/ StartAllReturn
  \/ \E r \in Runners : HLRead(r)
  \/ HLHealth
  \/ HLNotRunning
  \/ HLProbeOk
  \/ HLProbeFail

Spec == Init /\ [][Next]_vars

\* the first Start call of a behaviour
FirstStart(r) == ncalls = 0 /\ Start(r)

\* The request path: callers of RouteTask, Execute and Health, next to the
\* lifecycle of the runners they address.  One Start and one Stop take a
\* runner through all four states and close a client under a call in
\* flight, which is all the request path can see of the lifecycle.
ExecNext ==
  \/ \E r \in Runners : FirstStart(r)
  \/ \E c \in Calls : Spawn(c)
  \/ \E c \in Calls : StoreCancel(c)
  \/ \E c \in Calls : \E line \in Lines : SelectPort(c, line)
  \/ \E c \in Calls : SelectErr(c)
  \/ \E c \in Calls : SelectTimeout(c)
  \/ \E c \in Calls : Connect(c)
  \/ \E c \in Calls : ReturnErr(c)
  \/ \E c \in Calls : ChildExit(c)
  \/ \E c \in Calls : ChildKill(c)
  \/ \E c \in Calls : ScanOrphan(c)
  \/ \E c \in Calls : Monitor(c)
  \/ \E r \in Runners : Stop(r)
  \/ \E s \in Stops : StopNoWait(s)
  \/ \E s \in Stops : StopDone(s)
  \/ \E s \in Stops : StopTimeout(s)
  \/ \E r \in Runners : Execute(r)
  \/ \E r \in Runners : Health(r)
  \/ \E name \in AgentNames : \E req \in Requests : RouteTask(name, req)
  \/ \E out \in Streams \cup {NoStream} : ExecuteRPC(out)
  \/ \E ok \in BOOLEAN : HealthRPC(ok)
  \/ CallReturn

ExecSpec == Init /\ [][ExecNext]_vars

\* Construction: NewRegistry on any agents directory, then NewManager; no
\* runner is started.
RegInit ==
  /\ LifeInit
  /\ CallerInit
  /\ AuxIdle
  /\ dirStatus \in {"ok", "missing", "error"}
  /\ entries \in (IF dirStatus = "ok" THEN DirListings ELSE {<<>>})
  /\ regpc = "new"
  /\ rpos = 0
  /\ agents = <<>>
  /\ skillMap = EmptyMap
  /\ runners = EmptyMap

RegNext ==
  \/ ReadDir
  \/ ScanEntry
  \/ ScanDone
  \/ NewManager

RegSpec == RegInit /\ [][RegNext]_vars

\* The frontend, built with or without a manager, serving any request
AuthInit ==
  /\ LifeInit
  /\ CallerInit
  /\ FleetBuilt
  /\ hmgr \in BOOLEAN
  /\ hreq = NoRequest
  /\ hres = NoResponse
  /\ CodecIdle
  /\ DaemonIdle
  /\ PipeIdle
  /\ ConfigIdle

AuthNext ==
  \/ \E req \in HTTPRequests : ServeHTTP(req)
  \/ Respond

AuthSpec == AuthInit /\ [][AuthNext]_vars

\* The codec: any message marshalled and unmarshalled again, any byte
\* sequence unmarshalled
CodecNext ==
  \/ /\ cpc = "idle"
     /\ \E kind \in Kinds : \E m \in MessagesOf(kind) :
          \E order \in (IF kind = "TaskRequest"
                        THEN RangeOrders(m.Metadata.kv) ELSE {<<>>}) :
            MarshalMsg(kind, m, order)
  \/ /\ cpc = "idle"
     /\ \E kind \in Kinds : \E bytes \in ByteSeqs : Receive(kind, bytes)
  \/ /\ cpc = "idle"
     /\ \E kind \in Kinds : \E f \in Frames : ReceiveFrame(kind, f)
  \/ UnmarshalWire
  \/ CodecReturn

CodecSpec == Init /\ [][CodecNext]_vars

\* The daemon: StartAll, the health loop on its ticker, and the way down
DaemonInit ==
  /\ LifeInit
  /\ CallerInit
  /\ FleetBuilt
  /\ AuthIdle
  /\ CodecIdle
  /\ dmode \in {"foreground", "service"}
  /\ dpc = "init"
  /\ dwhy = "none"
  /\ qstopped = {}
  /\ hctx = FALSE
  /\ tick = FALSE
  /\ lpc = "none"
  /\ PipeIdle
  /\ ConfigIdle

DaemonNext ==
  \/ dpc = "init" /\ StartAll
  \/ StartAllReturn
  \/ \E c \in Calls : StartAllEnter(c)
  \/ \E c \in Calls : Spawn(c)
  \/ \E c \in Calls : StoreCancel(c)
  \/ \E c \in Calls : \E line \in Lines : SelectPort(c, line)
  \/ \E c \in Calls : SelectErr(c)
  \/ \E c \in Calls : SelectTimeout(c)
  \/ \E c \in Calls : Connect(c)
  \/ \E c \in Calls : ReturnErr(c)
  \/ \E c \in Calls : ChildExit(c)
  \/ \E c \in Calls : ChildKill(c)
  \/ \E c \in Calls : ScanOrphan(c)
  \/ \E c \in Calls : Monitor(c)
  \/ StartHealthLoop
  \/ Tick
  \/ LoopExit
  \/ LoopTick
  \/ \E r \in Runners : lpc = "checkall" /\ HLRead(r)
  \/ HLHealth
  \/ HLNotRunning
  \/ ~hctx /\ HLProbeOk
  \/ HLProbeFail
  \/ CheckAllDone
  \/ Signal
  \/ ForegroundDown
  \/ ServeError
  \/ ServiceStop
  \/ \E r \in Runners : StopAllStop(r)
  \/ \E s \in Stops : StopNoWait(s)
  \/ \E s \in Stops : StopDone(s)
  \/ \E s \in Stops : StopTimeout(s)
  \/ StopAllReturn
  \/ ServiceCancel
  \/ ShutdownDone

DaemonSpec == DaemonInit /\ [][DaemonNext]_vars

\* One Start with the stdout pipe of its child: the child writes lines, the
\* scanner goroutine reads them one by one until it has sent the port or
\* the error
PipeNext ==
  \/ \E r \in Runners : FirstStart(r)
  \/ \E c \in Calls : Spawn(c)
  \/ \E c \in Calls : StoreCancel(c)
  \/ \E c \in Calls : \E line \in Lines : ChildWrite(c, line)
  \/ \E c \in Calls : ScanRead(c)
  \/ \E c \in Calls : ScanDrop(c)
  \/ \E c \in Calls : SelectPort(c, sline[c])
  \/ \E c \in Calls : ScanEOF(c) /\ SelectErr(c)
  \/ \E c \in Calls : SelectTimeout(c)
  \/ \E c \in Calls : (IsPortLine(sline[c]) \/ ScanEOF(c)) /\ ScanOrphan(c)
  \/ \E c \in Calls : Connect(c)
  \/ \E c \in Calls : ReturnErr(c)
  \/ \E c \in Calls : ChildExit(c)
  \/ \E c \in Calls : ChildKill(c)
  \/ \E c \in Calls : Monitor(c)
  \/ \E r \in Runners : Stop(r)
  \/ \E s \in Stops : StopNoWait(s)
  \/ \E s \in Stops : StopDone(s)
  \/ \E s \in Stops : StopTimeout(s)

PipeSpec == Init /\ [][PipeNext]_vars

\* every call issued so far addressed runner r
SameRunner(r) ==
  /\ \A c \in Calls : crun[c] \in {"none", r}
  /\ \A s \in Stops : krun[s] \in {"none", r}

\* The lifecycle of one runner, any of the fleet, under callers that start
\* and stop it at will, without StartAll and the health loop.  (Runners share
\* no state; the calls on the other runners are left out.)
LiveNext ==
  \/ \E r \in Runners : SameRunner(r) /\ Start(r)
  \/ \E c \in Calls : Spawn(c)
  \/ \E c \in Calls : StoreCancel(c)
  \/ \E c \in Calls : \E line \in Lines : SelectPort(c, line)
  \/ \E c \in Calls : SelectErr(c)
  \/ \E c \in Calls : SelectTimeout(c)
  \/ \E c \in Calls : Connect(c)
  \/ \E c \in Calls : ReturnErr(c)
  \/ \E c \in Calls : ChildExit(c)
  \/ \E c \in Calls : ChildKill(c)
  \/ \E c \in Calls : ScanOrphan(c)
  \/ \E c \in Calls : Monitor(c)
  \/ \E r \in Runners : SameRunner(r) /\ Stop(r)
  \/ \E s \in Stops : StopNoWait(s)
  \/ \E s \in Stops : StopDone(s)
  \/ \E s \in Stops : StopTimeout(s)

\* the step a Start call takes by itself: it waits for nobody but the select,
\* and the select has a timer (time.After, runner.go 121)
StartStep(c) ==
  Spawn(c) \/ StoreCancel(c) \/ SelectTimeout(c) \/ Connect(c) \/ ReturnErr(c)

\* the step a Stop call takes by itself after its critical section: its
\* select has a timer too (runner.go 168)
StopStep(s) == StopNoWait(s) \/ StopTimeout(s)

\* What the scheduling of the code guarantees.  A goroutine that can take its
\* next step takes it: the critical sections under Runner.mu are short, and
\* cmd.StdoutPipe, cmd.Start and grpc.Dial do not block; the timers of the two
\* selects fire, so a select is left; cmd.Wait returns once the process has
\* exited.  Nothing makes a child exit or print, and nothing makes a caller
\* call Start or Stop.
LiveFair ==
  /\ \A c \in Calls : WF_vars(StartStep(c)) /\ WF_vars(Monitor(c))
  /\ \A s \in Stops : WF_vars(StopStep(s))

LiveSpec == Init /\ [][LiveNext]_vars /\ LiveFair

\* The same lifecycle with callers that call Stop again and again, one call
\* after the other.
RestopNext ==
  \/ LiveNext
  \/ \E r \in Runners : SameRunner(r) /\ StopAgain(r)

RestopSpec == Init /\ [][RestopNext]_vars

\* The config store under any sequence of PATCH and PUT requests
ConfigNext ==
  \/ \E p \in Patches : \E ok \in BOOLEAN : Update(p, ok)
  \/ \E body \in Configs : \E ok \in BOOLEAN : Replace(body, ok)

ConfigSpec == Init /\ [][ConfigNext]_vars

----------------------------------------------------------------------------
(* Steps, as the claims speak of them *)

\* call c executes the first critical section of Start in this step
EntersStart(c) == spc[c] \in {"none", "begin"} /\ spc'[c] \notin {"none", "begin"}

\* call c runs one of the failure paths of Start (setFailed) in this step
StartFails(c) == spc[c] \in {"spawn", "select", "dial"} /\ spc'[c] = "reterr"

\* the monitor of call c runs its critical section in this step
MonitorRuns(c) == mon[c] = "waiting" /\ mon'[c] # "waiting"

\* a Stop call on r executes its critical section in this step
StopRuns(r) == nstops' = nstops + 1 /\ krun'[nstops'] = r

\* Stop call s returns in this step
StopReturns(s) == kpc[s] = "wait" /\ kpc'[s] = "returned"

\* StartAll returns in this step
StartAllReturns == sapc = "waiting" /\ sapc' = "idle"

\* a step of the caller of RouteTask, Execute or Health
CallerStep == xpc' # xpc

\* the skill list of manifest e has the label k
Declares(e, k) == \E i \in 1..Len(e.skills) : e.skills[i] = k

\* the accepted manifests of the directory, in enumeration order:
\* directories whose manifest.json reads, parses and has a name, at least
\* one skill and a command
Accepted ==
  SelectSeq(entries,
            LAMBDA e : /\ e.kind = "manifest"
                       /\ e.name # ""
                       /\ e.skills # <<>>
                       /\ e.command # "")

\* the Authorization header is the configured token, with or without the
\* "Bearer " scheme in front
CarriesToken(req) ==
  req.auth = <<"Bearer ", BearerToken>> \/ req.auth = <<BearerToken>>

\* bytes a string field takes on the wire: nothing if empty, else one byte
\* of tag, one of length (the strings are short) and the string
FieldSize(str) == IF str = <<>> THEN 0 ELSE 2 + Len(str)

RECURSIVE SumSizes(_, _)
SumSizes(kv, ks) ==
  IF ks = {} THEN 0
  ELSE LET k == CHOOSE x \in ks : TRUE
       IN  2 + FieldSize(k) + FieldSize(kv[k]) + SumSizes(kv, ks \ {k})

\* bytes message m of type kind takes on the wire
WireSize(kind, m) ==
  IF kind = "TaskRequest"
  THEN FieldSize(m.TaskId) + FieldSize(m.Skill) + FieldSize(m.Input)
         + SumSizes(m.Metadata.kv, DOMAIN m.Metadata.kv)
  ELSE IF kind = "TaskEvent"
  THEN FieldSize(m.TaskId) + FieldSize(m.Type) + FieldSize(m.Payload)
  ELSE FieldSize(m.Status) + FieldSize(m.AgentName)

\* the same field values; for the metadata the same key/value pairs
SameMessage(kind, m1, m2) ==
  IF kind = "TaskRequest"
  THEN /\ m1.TaskId = m2.TaskId
       /\ m1.Skill = m2.Skill
       /\ m1.Input = m2.Input
       /\ DOMAIN m1.Metadata.kv = DOMAIN m2.Metadata.kv
       /\ \A k \in DOMAIN m1.Metadata.kv :
            m1.Metadata.kv[k] = m2.Metadata.kv[k]
  ELSE m1 = m2

\* runner.go 210-223: the snapshot Status returns (name and skills are the
\* manifest's); the error field is r.err.Error(), or empty for a nil error
Status(r) ==
  [state |-> state[r],
   port  |-> port[r],
   error |-> IF err[r] = NoErr THEN "" ELSE err[r]]

----------------------------------------------------------------------------
(* Claims *)

\* C1: in every reachable state, a runner that is Running has a non-nil
\* client and a non-zero port, whatever decimal port the child printed.
C1_RunningHasClientAndPort ==
  \A r \in Runners :
    state[r] = StateRunning => client[r] # Nil /\ port[r] # 0

\* C2: a failure path of a Start that is in flight while the state is
\* already Stopped (Stop ran meanwhile) is a no-op: the state stays Stopped
\* and is not overwritten with Failed.
C2_FailurePathKeepsStopped ==
  [][\A c \in Calls :
       (StartFails(c) /\ state[crun[c]] = StateStopped)
         => state'[crun[c]] = StateStopped]_vars

\* C3: once the state is Stopped it stays Stopped until a Start call begins;
\* in particular no Start that was already in flight sets it to Running.
C3_StoppedUntilNewStart ==
  [][\A r \in Runners :
       (state[r] = StateStopped /\ state'[r] = StateRunning)
         => \E c \in Calls : crun'[c] = r /\ EntersStart(c)]_vars

\* C4: when the child terminates, the monitor transitions the runner to
\* Failed with "process exited unexpectedly" if and only if the state at
\* that moment is Running; otherwise it leaves state and error unchanged.
C4_MonitorFailsIffRunning ==
  [][\A c \in Calls :
       MonitorRuns(c) =>
         IF state[crun[c]] = StateRunning
         THEN state'[crun[c]] = StateFailed /\ err'[crun[c]] = ErrExited
         ELSE state'[crun[c]] = state[crun[c]] /\ err'[crun[c]] = err[crun[c]]
    ]_vars

\* C5: Stop is the sole writer that transitions into Stopped (no step of
\* Start, setFailed, the monitor or the health loop writes Stopped), and a
\* Stop writes Stopped whatever the prior state.
C5_StopSoleWriterOfStopped ==
  [][\A r \in Runners :
       /\ (state[r] # StateStopped /\ state'[r] = StateStopped) => StopRuns(r)
       /\ StopRuns(r) => state'[r] = StateStopped]_vars

\* C5 witness: a Stop found the runner Failed and left it Stopped
C5_Witness ==
  \E s \in Stops :
    kpc[s] = "wait" /\ kstate[s] = StateFailed /\ state[krun[s]] = StateStopped

\* C6: when Stop returns, from whatever state it was called, the runner has
\* no live child process.  Stated for the child of the generation Stop found
\* (the Start call whose done channel it captured) and for the returns that
\* did not run into the 5 s grace timeout.
C6_StopLeavesNoLiveChild ==
  [][\A s \in Stops :
       ((StopNoWait(s) \/ StopDone(s)) /\ kdone[s] # Nil)
         => child'[kdone[s]] # "alive"]_vars

\* C7: a Start that finds the runner Running or Starting returns success
\* (line 57) without side effects: no child is spawned and state, error,
\* port, client, cancel handle and done signal are unchanged.
C7_StartNoopWhenBusy ==
  [][\A c \in Calls :
       (EntersStart(c) /\ state[crun'[c]] \in {StateRunning, StateStarting})
         => spc'[c] = "noop" /\ UNCHANGED <<runnerVars, procVars>>]_vars

\* C7 witness: a Start call returned at line 57 while an earlier call's
\* Start is in flight or has made the runner Running
C7_Witness ==
  \E c \in Calls :
    /\ spc[c] = "noop"
    /\ state[crun[c]] \in {StateRunning, StateStarting}
    /\ child[c] = "none"

\* C8: on a handshake timeout the child is torn down without further caller
\* action: when Start has taken the timeout path, the cancellation of its
\* context has been delivered to the child.
C8_TimeoutCancelsChild ==
  \A c \in Calls : scause[c] = ErrTimeout => ctxDone[c]

\* C9: on a premature exit the exit monitor is the writer of the Failed
\* transition: every step that makes the runner Failed with the
\* premature-exit error is a step of that runner's monitor.
C9_MonitorWritesPrematureExit ==
  [][\A r \in Runners :
       (state'[r] = StateFailed /\ err'[r] = ErrPrematureExit
          /\ ~(state[r] = StateFailed /\ err[r] = ErrPrematureExit))
         => \E c \in Calls : crun[c] = r /\ MonitorRuns(c)]_vars

\* C10: at the moment StartAll returns every runner is Running or Failed,
\* whatever runs concurrently on the same runners.
C10_StartAllSettled ==
  [][StartAllReturns
       => \A r \in Runners : state'[r] \in {StateRunning, StateFailed}]_vars

\* C11: the health loop issues a probe RPC to a runner only if it read that
\* runner's state as Running in this pass; a runner read as Stopped, Starting
\* or Failed is skipped, so no RPC (and no Health call) is in flight for it.
C11_ProbeOnlyIfReadRunning ==
  hlpc \in {"health", "notrunning", "rpc"} => hlstate = StateRunning

\* C11 witness: a probe RPC is in flight for a runner that was read as
\* Running and has been stopped since
C11_Witness ==
  hlpc = "rpc" /\ hlstate = StateRunning /\ state[hlr] = StateStopped

\* C12: when a probe on a runner that is Running fails (RPC error or the
\* 5 s deadline), the health loop, in that same pass, makes the runner
\* Failed with the probe error as the runner's error.
C12_FailedProbeMarksFailed ==
  [][(HLProbeFail /\ state[hlr] = StateRunning)
       => state'[hlr] = StateFailed /\ err'[hlr] = ErrRPC]_vars

\* C12 witness: a runner that reached Running is Failed with the probe error
C12_Witness ==
  \E r \in Runners :
    state[r] = StateFailed /\ err[r] = ErrRPC /\ client[r] # Nil

\* C13: every transition to Failed performed by the health loop starts from
\* Running: the loop's setFailed never runs on a runner that is Stopped,
\* Starting or already Failed at that moment.
C13_HealthLoopFailsOnlyRunning ==
  [][(HLNotRunning \/ HLProbeFail) => state[hlr] = StateRunning]_vars

\* C20: in every Status snapshot the error field is non-empty only if the
\* state is Failed.
C20_StatusErrorOnlyWhenFailed ==
  \A r \in Runners : Status(r).error # "" => Status(r).state = StateFailed

\* C14: Execute and Health never change runner state.  Every step of such a
\* call leaves state, error, port and client unchanged; a call that finds the
\* runner not Running or without client returns the not-running error at
\* once, without reaching the RPC; a failed RPC is returned as an error.
C14_ExecuteHealthReadOnly ==
  [][CallerStep =>
       /\ UNCHANGED <<state, err, port, client>>
       /\ \A r \in Runners :
            ((Execute(r) \/ Health(r)) /\ NotRunning(r))
              => (xpc' = "returned" /\ xres' = ErrResult(ErrNotRunning))
       /\ (ExecuteRPC(NoStream) => xres'.err = ErrExecute)
       /\ (HealthRPC(FALSE) => xres'.err = ErrRPC)]_vars

\* C14 witness: an Execute returned the error of its failed RPC and the
\* runner is still Running
C14_Witness ==
  /\ xpc = "returned"
  /\ xop = "execute"
  /\ xres.err = ErrExecute
  /\ state[xr] = StateRunning

C16_ExecuteReturnsStream ==
  (xpc = "returned" /\ xstream # NoStream) =>
    /\ (xstream.end = EOF =>
          xres = [events |-> xstream.frames, err |-> NoErr])
    /\ (xstream.end = ErrStream => xres.err = ErrStream)

\* C16 witness: Execute returned two events of different type from a stream
\* that ended normally
C16_Witness ==
  /\ xpc = "returned"
  /\ xstream # NoStream
  /\ xstream.end = EOF
  /\ Len(xres.events) = 2
  /\ xres.events[1] # xres.events[2]

\* C17: after the construction of the registry, each skill maps to exactly
\* one agent name, the name of the first accepted manifest in enumeration
\* order that declares it (and to nothing if none declares it); a manifest
\* that lost a conflict is in the agent list all the same.
C17_FirstDeclarantWins ==
  regpc \in {"ok", "managed"} =>
    /\ \A k \in Skills :
         LET ds == {i \in 1..Len(Accepted) : Declares(Accepted[i], k)}
         IN  IF ds = {}
             THEN k \notin DOMAIN skillMap
             ELSE /\ k \in DOMAIN skillMap
                  /\ skillMap[k] =
                       Accepted[CHOOSE i \in ds : \A j \in ds : i <= j].name
    /\ \A i \in 1..Len(Accepted) :
         \E j \in 1..Len(agents) : agents[j] = Accepted[i]

\* C17 witness: the second manifest lost "echo" to the first and owns "sum"
C17_Witness ==
  /\ regpc = "ok"
  /\ Len(agents) = 2
  /\ agents[1].skills = <<"echo">>
  /\ agents[2].skills = <<"echo", "sum">>
  /\ agents[1].name # agents[2].name
  /\ skillMap["echo"] = agents[1].name
  /\ skillMap["sum"] = agents[2].name

\* C18: the construction succeeds with an empty registry when the agents
\* directory does not exist; files, directories without manifest and
\* directories whose manifest fails to read, parse or validate are skipped,
\* and the agent list is exactly the accepted manifests in enumeration order.
C18_ScanSkipsBadDirectories ==
  /\ (dirStatus = "missing" /\ regpc # "new") =>
       (regpc \in {"ok", "managed"} /\ agents = <<>> /\ skillMap = EmptyMap)
  /\ regpc \in {"ok", "managed"} => agents = Accepted

\* C18 witness: the first directory's manifest has no name and was skipped,
\* the second directory's manifest is the whole agent list
C18_Witness ==
  /\ regpc = "ok"
  /\ Len(entries) = 2
  /\ entries[1].kind = "manifest"
  /\ entries[1].name = ""
  /\ agents = <<entries[2]>>

\* C19: a Manager built from a registry holds exactly one Runner per manifest
\* of the agent list: as many runners as manifests, and every manifest is the
\* manifest of some runner.
C19_OneRunnerPerManifest ==
  regpc = "managed" =>
    /\ Cardinality(DOMAIN runners) = Len(agents)
    /\ \A i \in 1..Len(agents) : \E n \in DOMAIN runners : runners[n] = i

\* C21: in every Status snapshot the port is zero until the handshake of
\* the current process generation has completed: a runner that is Stopped,
\* or that is Starting while the Start that made it so has not yet received
\* its port line, reports port 0.
C21_PortZeroUntilHandshake ==
  \A r \in Runners :
    (\/ state[r] = StateStopped
     \/ /\ state[r] = StateStarting
        /\ done[r] # Nil
        /\ spc[done[r]] \in {"spawn", "store", "select"})
      => Status(r).port = 0

\* C22: a runner leaves Failed only through a Start that enters (to
\* Starting, with the error cleared) or through a Stop (to Stopped); in
\* particular never directly to Running.
C22_FailedLeftOnlyByStartOrStop ==
  [][\A r \in Runners :
       (state[r] = StateFailed /\ state'[r] # StateFailed) =>
         \/ /\ state'[r] = StateStarting
            /\ err'[r] = NoErr
            /\ \E c \in Calls : crun'[c] = r /\ EntersStart(c)
         \/ state'[r] = StateStopped /\ StopRuns(r)]_vars

\* C23: at any time each runner has at most one live child process and at
\* most one exit monitor waiting on a process.
C23_OneChildOneMonitor ==
  \A r \in Runners :
    /\ Cardinality({c \in Calls : crun[c] = r /\ child[c] = "alive"}) <= 1
    /\ Cardinality({c \in Calls : crun[c] = r /\ mon[c] = "waiting"}) <= 1

\* C30: when Stop returns, the child of the process generation Stop found
\* (spawned already, or spawned since by the Start that was in flight) has
\* been signalled: if it is alive, its context has been cancelled.
C30_StopSignalsChild ==
  [][\A s \in Stops :
       (StopReturns(s) /\ kdone[s] # Nil /\ child'[kdone[s]] = "alive")
         => ctxDone'[kdone[s]]]_vars

\* C29: every request to an API endpoint other than /api/v1/health (config,
\* status, agents, one agent, agent tasks) whose Authorization header does
\* not carry the configured bearer token is answered 401 and does not reach
\* the protected handler.
C29_ProtectedNeedsToken ==
  (/\ hreq # NoRequest
   /\ Route(hreq.path, hmgr).protected
   /\ ~CarriesToken(hreq))
    => hres.status = "401"

\* C27: codec round trip.  For every TaskRequest, TaskEvent and
\* HealthResponse, unmarshalling what Marshal wrote into a fresh message
\* succeeds and yields the same field values and, for the metadata, exactly
\* the same key/value pairs, whatever the order the entries were emitted;
\* empty strings take no bytes on the wire and come back empty.
C27_RoundTrip ==
  (cpc # "idle" /\ cmsg # NoMsg) =>
    /\ Len(cwire) = WireSize(ckind, cmsg)
    /\ cpc = "decoded" =>
         /\ cout.status = "ok"
         /\ SameMessage(ckind, cout.msg, cmsg)

\* C27 witness: a TaskRequest with an empty field and three metadata
\* entries, one with the empty key and one with an empty value, emitted
\* with the empty key last, came back
C27_Witness ==
  /\ cpc = "decoded"
  /\ ckind = "TaskRequest"
  /\ cmsg # NoMsg
  /\ cmsg.Skill = <<>>
  /\ cmsg.TaskId # <<>>
  /\ DOMAIN cmsg.Metadata.kv = MetaKeys
  /\ cmsg.Metadata.kv[<<97>>] = <<>>
  /\ cmsg.Metadata.kv[<<>>] # <<>>
  /\ SubSeq(cwire, Len(cwire) - 4, Len(cwire)) = <<34, 3, 18, 1, 98>>
  /\ cout.msg.Metadata.kv = cmsg.Metadata.kv

\* C28: decoding is total.  Each decoder returns a message or a decode
\* error on every byte sequence, never a panic; a tag or a length-delimited
\* value cut short at the end of the input is a decode error, and so is a
\* malformed map entry in the metadata field of a TaskRequest; a well-formed
\* field with an unknown number or another wire type is skipped: the result
\* is that of the input without it.
C28_DecodeTotal ==
  cpc = "decoded" =>
    /\ cout.status \in {"ok", "error"}
    /\ (cframe # NoFrame /\ cframe.u \in Truncated /\ cframe.b = <<>>)
         => cout.status = "error"
    /\ (cframe # NoFrame /\ cframe.u \in BadEntries
          /\ ckind = "TaskRequest")
         => cout.status = "error"
    /\ (cframe # NoFrame /\ cframe.u \in UnknownFields)
         => /\ cout.status = "ok"
            /\ cout = Unmarshal(ckind, cframe.a \o cframe.b, Fresh(ckind))

\* C28 witness: a TaskRequest decoder skipped a group between two known
\* fields and filled in both
C28_Witness ==
  /\ cpc = "decoded"
  /\ ckind = "TaskRequest"
  /\ cframe # NoFrame
  /\ cframe.u = <<11, 8, 1, 12>>
  /\ cout.status = "ok"
  /\ cout.msg.TaskId = <<97>>
  /\ cout.msg.Metadata.kv = MapPut(EmptyMap, <<97>>, <<>>)

\* C25: on top-level shutdown (signal in the foreground, Stop in the
\* service) the frontend's Shutdown begins only after StopAll has returned,
\* having called Stop on every runner and every one of these Stops having
\* returned.
C25_StopAllBeforeShutdown ==
  dpc \in {"shutdown", "down"} =>
    /\ dwhy \in {"signal", "stop"}
    /\ qstopped = Runners
    /\ \A s \in Stops : kpc[s] \in {"none", "returned"}

\* C25 witness: the service's Shutdown has begun, StopAll having stopped a
\* runner that was Running
C25_Witness ==
  /\ dpc = "shutdown"
  /\ dmode = "service"
  /\ qstopped = Runners
  /\ \E c \in Calls : spc[c] = "ok" /\ state[crun[c]] = StateStopped

\* C26: once the context of the health loop is cancelled, the loop starts no
\* further tick (and terminates).
C26_NoTickAfterCancel ==
  [][hctx => ~(lpc = "select" /\ lpc' = "checkall")]_vars

\* C24: the supervisor never leaves its child blocked on stdout.  Whenever
\* the child of the runner's current Start is alive with a full stdout pipe
\* while the runner is Starting or Running, the pipe still has its reader:
\* the scanner goroutine (running, or about to be launched by Start) has not
\* returned and will take the next line.
C24_StdoutStillConsumed ==
  \A c \in Calls :
    (/\ crun[c] \in Runners
     /\ done[crun[c]] = c
     /\ state[crun[c]] \in {StateStarting, StateRunning}
     /\ Blocked(c))
      => scan[c] # "done"

\* C31: if the child of the current generation (the Start call whose done
\* channel the runner holds) has exited and its monitor has finished, and no
\* Stop was ever called, the runner is not Running.
C31_ExitedChildNotRunning ==
  \A c \in Calls :
    (nstops = 0 /\ crun[c] # "none" /\ done[crun[c]] = c /\ mon[c] = "done")
      => state[crun[c]] # StateRunning

\* C32: Starting is transient.  Every Start call that was issued returns, and
\* a runner that is Starting eventually is not Starting any more (it is
\* Running, Failed or Stopped).  A panic ends the process and every call in it.
C32_StartingIsTransient ==
  /\ \A c \in Calls :
       (spc[c] # "none") ~> (StartReturned(c) \/ panicked)
  /\ \A r \in Runners :
       (state[r] = StateStarting) ~> (state[r] # StateStarting \/ panicked)

\* C32 witness: a Start that spawned its child and ran into the handshake
\* timeout has returned its error, and the runner is Failed
C32_Witness ==
  \E c \in Calls :
    /\ spc[c] = "failed"
    /\ child[c] = "alive"
    /\ state[crun[c]] = StateFailed
    /\ err[crun[c]] = ErrTimeout

\* C33: Stop waits for the done signal only when the state it found was
\* Running or Starting, and a Stop on a runner that is Stopped changes no
\* field of the runner and nothing of its processes: the state stays Stopped,
\* port, client, cancel handle, done signal and error are as before, and no
\* context is cancelled.
C33_StopOnStoppedChangesNothing ==
  [][/\ \A s \in Stops :
          (StopDone(s) \/ StopTimeout(s))
            => kstate[s] \in {StateRunning, StateStarting}
     /\ \A r \in Runners :
          ((Stop(r) \/ StopAgain(r)) /\ state[r] = StateStopped)
            => UNCHANGED <<runnerVars, procVars>>]_vars

\* C34: every spawned child has its monitor, launched after the spawn and
\* before the handshake is read (the scanner exists and the select is reached
\* only with the monitor launched; no monitor without a child); only the
\* monitor waits on the process, so only a monitor step reaps a child; and a
\* child that has exited is eventually reaped, whatever became of the
\* handshake.  (A panic ends the process; its children are no longer its
\* zombies.)
C34_MonitorReapsEveryChild ==
  /\ [](\A c \in Calls :
          /\ (child[c] # "none" /\ spc[c] # "store") => mon[c] # "none"
          /\ scan[c] # "none" => mon[c] # "none"
          /\ mon[c] # "none" => child[c] # "none")
  /\ [][\A c \in Calls :
          (child[c] # "reaped" /\ child'[c] = "reaped") => MonitorRuns(c)]_vars
  /\ \A c \in Calls :
       (child[c] = "exited") ~> (child[c] = "reaped" \/ panicked)

\* C34 witness: the handshake of a Start timed out, its child exited later
\* and has been reaped by its monitor
C34_Witness ==
  \E c \in Calls :
    /\ spc[c] = "failed"
    /\ err[crun[c]] = ErrTimeout
    /\ child[c] = "reaped"
    /\ mon[c] = "done"

\* C35: no monitor panics on a done channel that is already closed, and the
\* done channel allocated by a Start call is closed only by the monitor of
\* the child that call spawned.
C35_DoneClosedOnceByOwnMonitor ==
  /\ ~panicked
  /\ \A c \in Calls : closed[c] => mon[c] = "done"

\* C36: when the monitor of a child of an earlier generation runs (the runner
\* has been started again since and holds the done channel of a later Start),
\* it changes neither the state of the runner nor any done channel.
C36_OldExitLeavesNewGeneration ==
  [][\A c \in Calls :
       (MonitorRuns(c) /\ done[crun[c]] # c)
         => UNCHANGED <<state, closed>>]_vars

\* C37: a Start call that failed returns a non-nil error, and that error is
\* the cause the call itself passed to setFailed: at its "return r.err" the
\* runner's error is still that cause.
C37_FailedStartReturnsItsCause ==
  [][\A c \in Calls :
       ReturnErr(c) =>
         /\ scause[c] # NoErr
         /\ err[crun[c]] = scause[c]
         /\ spc'[c] = "failed"]_vars

\* C38: once the context of the health loop is cancelled, the health loop
\* changes the state of no runner: neither a probe that fails (with the
\* context cancelled every probe fails) nor a refused Health call marks a
\* runner Failed.
C38_NoDemotionAfterCancel ==
  [][(hctx /\ (HLProbeFail \/ HLNotRunning)) => UNCHANGED state]_vars

\* C39: once the Manager is built, every skill the registry maps to an agent
\* name has a runner of that name in the Manager, and the manifest that
\* runner was built from declares the skill.
C39_SkillRoutesToDeclaringRunner ==
  regpc = "managed" =>
    \A k \in DOMAIN skillMap :
      /\ skillMap[k] \in DOMAIN runners
      /\ Declares(agents[runners[skillMap[k]]], k)

\* C40: an Update or a Replace that validate rejects leaves config.current
\* as it was (Get returns the same configuration as before the call); an
\* Update that does not touch the port is not rejected by validate, also
\* right after a rejected call; and no Replace changes the bearer token.
C40_RejectedUpdateChangesNothing ==
  [][/\ (gcall' # gcall /\ gcall'.err = "validate") => Get' = Get
     /\ \A p \in Patches : \A ok \in BOOLEAN :
          (Update(p, ok) /\ ~p.hasPort)
            => gcall'.err # "validate"
     /\ \A body \in Configs : \A ok \in BOOLEAN :
          Replace(body, ok) => Get'.BearerToken = Get.BearerToken]_vars

====
